---------------------------- MODULE Spec2Model ----------------------------
(***************************************************************************)
(* A model of kitty-doom's terminal input pipeline (src/src/input.c): the  *)
(* escape-sequence parser, the held-key bitmap, the pending-release list   *)
(* and the input thread's poll loop, together with the calls it makes into *)
(* the DOOM engine (doom_key_down, doom_key_up, doom_mouse_move); of the   *)
(* Kitty graphics renderer (src/src/render.c); of the palette converter    *)
(* (src/src/palette.c, src/src/arch/neon-palette.h); and of the terminal   *)
(* queries a caller thread makes while the input thread parses the replies *)
(* (input.c:832-936).                                                      *)
(*                                                                         *)
(* Time is the CLOCK_MONOTONIC clock in nanoseconds; a struct timespec is  *)
(* the record [tv_sec, tv_nsec] and the code's arithmetic on it is kept,   *)
(* C's truncating division included.                                       *)
(***************************************************************************)
EXTENDS Integers, Sequences, FiniteSets, TLC

VARIABLES
    input,        \* struct input (input.c:38-82)
    doom,         \* the engine's view of each key, as built by the calls it received
    now,          \* CLOCK_MONOTONIC, in nanoseconds
    pc,           \* where the input thread is in its loop: "poll" or "read"
    ev,           \* the last step taken: its operation, its byte, the engine calls it made
    char_signed,  \* whether plain char is signed in this build (implementation-defined)
    renderer,     \* struct renderer (render.c:21-29)
    stdout,       \* the writes the renderer has made to the output stream, in order
    rcall,        \* the last renderer_render_frame call: its input and how it ended
    palette_cache,  \* the static channel tables and their flag (palette.c:22-25)
    pcall,        \* the last palette_to_rgb24 call: its arguments and its output
    caller,       \* the thread that calls the query functions (input.c:832-936)
    query_mutex,  \* the owner of query_mutex, or "free"
    stdin,        \* terminal replies the input thread has not read yet
    qhist,        \* what has happened to the shared query fields so far
    peer,         \* a second thread that calls the query functions
    life          \* construction and teardown: what is allocated, initialised, running

vars == <<input, doom, now, pc, ev, char_signed, renderer, stdout, rcall,
          palette_cache, pcall, caller, query_mutex, stdin, qhist, peer, life>>

\* the state of the input thread, of the renderer, of the palette converter,
\* of the terminal queries and of construction and teardown
thread_vars == <<input, doom, now, pc, ev, char_signed>>
render_vars == <<renderer, stdout, rcall>>
palette_vars == <<palette_cache, pcall>>
query_vars == <<caller, query_mutex, stdin, qhist, peer>>
life_vars == <<life>>

(***************************************************************************)
(* Program constants                                                       *)
(***************************************************************************)
MAX_PARMS == 32
MAX_PENDING_RELEASES == 16
MAX_KEY_CODE == 256
NSEC_PER_SEC == 1000000000
NSEC_PER_MSEC == 1000000
MSEC_PER_SEC == 1000
MOUSE_SENSITIVITY == 10
MAX_DELTA_CLAMP == 100
HOLD_MS == 50
ARROW_HOLD_MS == 80
DISTINCT_MS == 25
ESC_TIMEOUT_MS == 100

\* doom_key_t of PureDOOM.h, which input.c includes
DOOM_KEY_ENTER == 13 + 0
DOOM_KEY_ESCAPE == 27 + 0
DOOM_KEY_CTRL == 128 + 29
DOOM_KEY_LEFT_ARROW == 172 + 0
DOOM_KEY_UP_ARROW == 173 + 0
DOOM_KEY_RIGHT_ARROW == 174 + 0
DOOM_KEY_DOWN_ARROW == 175 + 0
DOOM_KEY_SHIFT == 128 + 54
DOOM_KEY_ALT == 128 + 56
DOOM_KEY_F1 == 128 + 59
DOOM_KEY_F2 == 128 + 60
DOOM_KEY_F3 == 128 + 61
DOOM_KEY_F4 == 128 + 62
DOOM_KEY_F5 == 128 + 63
DOOM_KEY_F6 == 128 + 64
DOOM_KEY_F7 == 128 + 65
DOOM_KEY_F8 == 128 + 66
DOOM_KEY_F9 == 128 + 67
DOOM_KEY_F10 == 128 + 68
DOOM_KEY_F11 == 128 + 87
DOOM_KEY_F12 == 128 + 88

\* parser_state_t
STATE_GROUND == "GROUND"
STATE_ESC == "ESC"
STATE_SS3 == "SS3"
STATE_CSI == "CSI"

(***************************************************************************)
(* C arithmetic                                                            *)
(***************************************************************************)
\* a / b of C: the quotient truncated toward zero (b > 0)
CDiv(a, b) == IF a >= 0 THEN a \div b ELSE -((-a) \div b)

\* a & b on non-negative ints, for the single-bit masks the code tests
BitSet(a, bit) == (a \div bit) % 2 = 1

\* (char) ch of parse_char's call: a byte 0..255 as a plain char
ToChar(byte) == IF char_signed /\ byte >= 128 THEN byte - 256 ELSE byte

\* clock_gettime(CLOCK_MONOTONIC, &ts)
clock_gettime(t) == [tv_sec |-> t \div NSEC_PER_SEC, tv_nsec |-> t % NSEC_PER_SEC]

(***************************************************************************)
(* The engine, seen through the calls made to it.  c is the context an     *)
(* operation runs in: [input, doom, calls, now].                           *)
(***************************************************************************)
\* doom.down: keys whose last call was key-down; doom.twice: keys that got a
\* key-down while already down and no key-up since
doom_key_down(c, key) ==
    [c EXCEPT !.doom = [down  |-> @.down \cup {key},
                        twice |-> IF key \in @.down THEN @.twice \cup {key} ELSE @.twice],
              !.calls = Append(@, <<"down", key>>)]

doom_key_up(c, key) ==
    [c EXCEPT !.doom = [down |-> @.down \ {key}, twice |-> @.twice \ {key}],
              !.calls = Append(@, <<"up", key>>)]

doom_mouse_move(c, dx, dy) ==
    [c EXCEPT !.calls = Append(@, <<"move", dx, dy>>)]

key_down(c, key) == doom_key_down(c, key)

(***************************************************************************)
(* Held-key bitmap                                                         *)
(***************************************************************************)
mark_key_held(c, key) ==
    IF key < 0 \/ key >= MAX_KEY_CODE THEN c
    ELSE [c EXCEPT !.input.held_keys_bitmap = @ \cup {key}]

mark_key_released(c, key) ==
    IF key < 0 \/ key >= MAX_KEY_CODE THEN c
    ELSE [c EXCEPT !.input.held_keys_bitmap = @ \ {key}]

is_key_held(c, key) ==
    IF key < 0 \/ key >= MAX_KEY_CODE THEN FALSE
    ELSE key \in c.input.held_keys_bitmap

(***************************************************************************)
(* Pending releases                                                        *)
(***************************************************************************)
pending_count(inp) == Len(inp.pending_releases)

\* the index of the first entry for key, 0 when there is none (the loops of
\* sched_key_release and csi_key stop at the first match)
FindPending(inp, key) ==
    LET hits == {i \in 1..Len(inp.pending_releases) : inp.pending_releases[i].key = key}
    IN  IF hits = {} THEN 0 ELSE CHOOSE i \in hits : \A j \in hits : i <= j

\* the list without entry i (the shifting loop)
RemoveAt(s, i) == [j \in 1..(Len(s) - 1) |-> IF j < i THEN s[j] ELSE s[j + 1]]

\* release_time = now + delay_ms, normalised
ReleaseTime(t, delay_ms) ==
    LET ts   == clock_gettime(t)
        nsec == ts.tv_nsec + delay_ms * NSEC_PER_MSEC
    IN  IF nsec >= NSEC_PER_SEC
        THEN [tv_sec |-> ts.tv_sec + nsec \div NSEC_PER_SEC, tv_nsec |-> nsec % NSEC_PER_SEC]
        ELSE [tv_sec |-> ts.tv_sec, tv_nsec |-> nsec]

\* a mutant of sched_key_release: the entry is appended without the search
\* for an existing one
sched_key_release_append(c, key, delay_ms) ==
    IF pending_count(c.input) < MAX_PENDING_RELEASES
    THEN mark_key_held(
             [c EXCEPT !.input.pending_releases =
                           Append(@, [key |-> key, release_time |-> ReleaseTime(c.now, delay_ms)])],
             key)
    ELSE c

sched_key_release(c, key, delay_ms) ==
    LET release_time == ReleaseTime(c.now, delay_ms)
        i == FindPending(c.input, key)
    IN  IF i # 0
        THEN [c EXCEPT !.input.pending_releases[i].release_time = release_time]
        ELSE IF pending_count(c.input) < MAX_PENDING_RELEASES
        THEN mark_key_held(
                 [c EXCEPT !.input.pending_releases =
                               Append(@, [key |-> key, release_time |-> release_time])],
                 key)
        ELSE c

\* now >= release_time, as process_pending_releases compares timespecs
Expired(ts, rt) ==
    \/ ts.tv_sec > rt.tv_sec
    \/ ts.tv_sec = rt.tv_sec /\ ts.tv_nsec >= rt.tv_nsec

\* a mutant of process_pending_releases: one entry, the last one due, is
\* released per iteration
process_one_release(c) ==
    LET ts   == clock_gettime(c.now)
        list == c.input.pending_releases
        due  == {i \in 1..Len(list) : Expired(ts, list[i].release_time)}
    IN  IF due = {} THEN c
        ELSE LET i == CHOOSE i \in due : \A j \in due : j <= i
             IN  [c EXCEPT !.input.pending_releases = RemoveAt(list, i),
                           !.input.held_keys_bitmap = @ \ {list[i].key},
                           !.doom = [down |-> @.down \ {list[i].key},
                                     twice |-> @.twice \ {list[i].key}],
                           !.calls = Append(@, <<"up", list[i].key>>)]

\* the loop runs from the last entry down to the first: every entry that is due
\* gets doom_key_up and mark_key_released and is removed, the later entries
\* shifting down; the entries not yet due keep their order
process_pending_releases(c) ==
    LET ts   == clock_gettime(c.now)
        list == c.input.pending_releases
        due  == SelectSeq(list, LAMBDA pr : Expired(ts, pr.release_time))
        keys == {due[j].key : j \in 1..Len(due)}
    IN  [c EXCEPT !.input.pending_releases =
                      SelectSeq(list, LAMBDA pr : ~Expired(ts, pr.release_time)),
                  !.input.held_keys_bitmap = @ \ keys,
                  !.doom = [down |-> @.down \ keys, twice |-> @.twice \ keys],
                  !.calls = @ \o [j \in 1..Len(due) |-> <<"up", due[Len(due) + 1 - j].key>>]]


(***************************************************************************)
(* Key dispatch                                                            *)
(***************************************************************************)
\* ch is a plain char: 13 '\r', 10 '\n', 32 ' ', 102 'f', 70 'F', 105 'i', 73 'I'
AsciiDoomKey(ch) ==
    LET k1 == IF ch = 13 THEN DOOM_KEY_ENTER ELSE ch
        k2 == IF k1 = 10 THEN DOOM_KEY_ENTER ELSE k1
    IN  IF ch \in {32, 102, 70, 105, 73} THEN DOOM_KEY_CTRL ELSE k2

ascii_key(c, ch) ==
    LET doom_key == AsciiDoomKey(ch)
        c1 == IF ~is_key_held(c, doom_key) THEN doom_key_down(c, doom_key) ELSE c
    IN  sched_key_release(c1, doom_key, HOLD_MS)

\* 80 'P', 81 'Q', 82 'R', 83 'S'
ss3_key(c, ch) ==
    LET doom_key == CASE ch = 80 -> DOOM_KEY_F1
                      [] ch = 81 -> DOOM_KEY_F2
                      [] ch = 82 -> DOOM_KEY_F3
                      [] ch = 83 -> DOOM_KEY_F4
                      [] OTHER -> 0
    IN  IF doom_key # 0
        THEN sched_key_release(
                 IF ~is_key_held(c, doom_key) THEN doom_key_down(c, doom_key) ELSE c,
                 doom_key, HOLD_MS)
        ELSE c

\* the modifier mask of a CSI modifier parameter: bit 1 Shift, 2 Alt, 4 Ctrl
ModifierKeys(modifiers) ==
    IF modifiers >= 2
    THEN LET modifier_mask == modifiers - 1
         IN  (IF BitSet(modifier_mask, 1) THEN <<DOOM_KEY_SHIFT>> ELSE <<>>)
             \o (IF BitSet(modifier_mask, 2) THEN <<DOOM_KEY_ALT>> ELSE <<>>)
             \o (IF BitSet(modifier_mask, 4) THEN <<DOOM_KEY_CTRL>> ELSE <<>>)
    ELSE <<>>

RECURSIVE ForEachKey(_, _, _, _)
\* op = "down": key_down(key); op = "sched": sched_key_release(key, delay_ms)
ForEachKey(c, keys, op, delay_ms) ==
    IF keys = <<>> THEN c
    ELSE ForEachKey(IF op = "down" THEN key_down(c, Head(keys))
                    ELSE sched_key_release(c, Head(keys), delay_ms),
                    Tail(keys), op, delay_ms)

for_each_modifier(c, modifiers) == ForEachKey(c, ModifierKeys(modifiers), "down", 0)

sched_modifier_releases(c, modifiers, delay_ms) ==
    ForEachKey(c, ModifierKeys(modifiers), "sched", delay_ms)

\* 65 'A', 66 'B', 67 'C', 68 'D', 126 '~'
CsiDoomKey(ch, parm1) ==
    CASE ch = 65 -> DOOM_KEY_UP_ARROW
      [] ch = 66 -> DOOM_KEY_DOWN_ARROW
      [] ch = 67 -> DOOM_KEY_RIGHT_ARROW
      [] ch = 68 -> DOOM_KEY_LEFT_ARROW
      [] ch = 126 -> (CASE parm1 = 15 -> DOOM_KEY_F5
                        [] parm1 = 17 -> DOOM_KEY_F6
                        [] parm1 = 18 -> DOOM_KEY_F7
                        [] parm1 = 19 -> DOOM_KEY_F8
                        [] parm1 = 20 -> DOOM_KEY_F9
                        [] parm1 = 21 -> DOOM_KEY_F10
                        [] parm1 = 23 -> DOOM_KEY_F11
                        [] parm1 = 24 -> DOOM_KEY_F12
                        [] OTHER -> 0)
      [] OTHER -> 0

CsiDelayMs(doom_key) ==
    IF doom_key \in {DOOM_KEY_UP_ARROW, DOOM_KEY_DOWN_ARROW,
                     DOOM_KEY_LEFT_ARROW, DOOM_KEY_RIGHT_ARROW}
    THEN ARROW_HOLD_MS ELSE HOLD_MS

\* time_to_release_ms of csi_key
TimeToReleaseMs(rt, ts) ==
    (rt.tv_sec - ts.tv_sec) * MSEC_PER_SEC + CDiv(rt.tv_nsec - ts.tv_nsec, NSEC_PER_MSEC)

\* a mutant of IsDistinctKeypress: 25 ms remaining count as distinct
IsDistinctFrom25(time_to_release_ms) == time_to_release_ms >= DISTINCT_MS

\* the "distinct new keypress" test of csi_key
IsDistinctKeypress(time_to_release_ms) == time_to_release_ms > DISTINCT_MS

csi_key(c, ch, parm1, parm2) ==
    LET doom_key == CsiDoomKey(ch, parm1)
        delay_ms == CsiDelayMs(doom_key)
        already_held == is_key_held(c, doom_key)
        i == FindPending(c.input, doom_key)
        is_new_keypress ==
            /\ already_held
            /\ i # 0
            /\ IsDistinctKeypress(TimeToReleaseMs(c.input.pending_releases[i].release_time,
                                                  clock_gettime(c.now)))
        c1 == IF is_new_keypress
              THEN [mark_key_released(doom_key_up(c, doom_key), doom_key)
                        EXCEPT !.input.pending_releases = RemoveAt(@, i)]
              ELSE c
        c2 == IF ~already_held \/ is_new_keypress
              THEN doom_key_down(for_each_modifier(c1, parm2), doom_key)
              ELSE c1
        c3 == sched_key_release(c2, doom_key, delay_ms)
    IN  IF doom_key = 0 THEN c
        ELSE IF ~already_held \/ is_new_keypress
        THEN sched_modifier_releases(c3, parm2, delay_ms)
        ELSE c3

(***************************************************************************)
(* Terminal replies                                                        *)
(***************************************************************************)
\* the 'c' branch of parse_char: the parameters are copied (malloc succeeding)
device_attributes_store(c) ==
    [c EXCEPT !.input.device_attributes =
                  [j \in 1..c.input.parm_count |-> c.input.parms[j - 1]],
              !.input.da_count = c.input.parm_count]

cell_size_report(c, height, width) ==
    [c EXCEPT !.input.cell_size = [first |-> height, second |-> width],
              !.input.has_cell_size = TRUE]

position_report(c, row, col) ==
    [c EXCEPT !.input.cursor_pos = [first |-> row, second |-> col],
              !.input.has_cursor_pos = TRUE]

(***************************************************************************)
(* SGR mouse reports                                                       *)
(***************************************************************************)
\* a mutant of Clamp: the delta is passed on as it is
ClampNone(d) == d

Clamp(d) == IF d > MAX_DELTA_CLAMP THEN MAX_DELTA_CLAMP
            ELSE IF d < -MAX_DELTA_CLAMP THEN -MAX_DELTA_CLAMP ELSE d

\* button 0 left, 1 middle, 2 right (32 is ' ')
\* a mutant of MouseDoomKey: the middle and the right button exchanged
MouseDoomKeySwapped(button) ==
    CASE button = 0 -> DOOM_KEY_CTRL
      [] button = 1 -> 32
      [] button = 2 -> DOOM_KEY_SHIFT
      [] OTHER -> 0

MouseDoomKey(button) ==
    CASE button = 0 -> DOOM_KEY_CTRL
      [] button = 2 -> 32
      [] button = 1 -> DOOM_KEY_SHIFT
      [] OTHER -> 0

\* final_char: 77 'M' press, 109 'm' release
parse_mouse_sgr(c, final_char) ==
    LET cb == c.input.parms[0]
        cx == c.input.parms[1]
        cy == c.input.parms[2]
        button == cb % 4
        is_motion == BitSet(cb, 32)
        is_wheel == BitSet(cb, 64)
        is_press == (final_char = 77)
        delta_x == Clamp(cx - c.input.mouse.last_x) * MOUSE_SENSITIVITY
        delta_y == Clamp(cy - c.input.mouse.last_y) * MOUSE_SENSITIVITY
        c1 == IF delta_x # 0 \/ delta_y # 0
              THEN [doom_mouse_move(c, delta_x, delta_y)
                        EXCEPT !.input.mouse.last_x = cx, !.input.mouse.last_y = cy]
              ELSE c
        doom_key == MouseDoomKey(button)
    IN  IF c.input.parm_count < 3 THEN c
        ELSE IF is_wheel THEN c
        ELSE IF ~c.input.mouse.tracking
        THEN [c EXCEPT !.input.mouse.last_x = cx, !.input.mouse.last_y = cy,
                       !.input.mouse.tracking = TRUE]
        ELSE IF ~is_motion /\ button < 3
        THEN IF is_press /\ ~c1.input.mouse.buttons[button]
             THEN LET c2 == [c1 EXCEPT !.input.mouse.buttons[button] = TRUE]
                  IN  IF doom_key # 0
                      THEN sched_key_release(doom_key_down(c2, doom_key), doom_key, HOLD_MS)
                      ELSE c2
             ELSE IF ~is_press /\ c1.input.mouse.buttons[button]
             THEN [c1 EXCEPT !.input.mouse.buttons[button] = FALSE]
             ELSE c1
        ELSE c1

(***************************************************************************)
(* The parser                                                              *)
(***************************************************************************)
\* a mutant of StoreParm: the parameter is counted without the capacity check
StoreParmUnchecked(c) ==
    [c EXCEPT !.input.parms[c.input.parm_count] = c.input.parm,
              !.input.parm_count = @ + 1]

\* "if (parm_count < MAX_PARMS) parms[parm_count++] = parm"
StoreParm(c) ==
    IF c.input.parm_count < MAX_PARMS
    THEN [c EXCEPT !.input.parms[c.input.parm_count] = c.input.parm,
                   !.input.parm_count = @ + 1]
    ELSE c

\* the dispatch on a CSI sequence's final byte, its last parameter stored:
\* 99 'c', 63 '?', 116 't', 82 'R', 77 'M', 109 'm', 60 '<'
CsiDispatch(c, ch) ==
    LET inp == c.input
    IN  IF ch = 99 /\ inp.parm_prefix = 63 THEN device_attributes_store(c)
        ELSE IF ch = 116
        THEN IF inp.parm_count >= 3 /\ inp.parms[0] = 4
             THEN cell_size_report(c, inp.parms[1], inp.parms[2]) ELSE c
        ELSE IF ch = 82
        THEN IF inp.parm_count >= 2
             THEN position_report(c, inp.parms[0], inp.parms[1]) ELSE c
        ELSE IF ch = 77 \/ ch = 109
        THEN IF inp.parm_prefix = 60 THEN parse_mouse_sgr(c, ch) ELSE c
        ELSE csi_key(c, ch,
                     IF inp.parm_count > 0 THEN inp.parms[0] ELSE 0,
                     IF inp.parm_count > 1 THEN inp.parms[1] ELSE 0)

\* a mutant of CsiFinal: a sequence that is no key (csi_key finds no mapping)
\* leaves the parser in CSI
CsiFinalKeysOnly(c, ch) ==
    [CsiDispatch(StoreParm(c), ch)
         EXCEPT !.input.state = IF CsiDoomKey(ch, 0) = 0 THEN @ ELSE STATE_GROUND]

\* a CSI sequence's final byte: the last parameter is stored, the sequence is
\* dispatched and the parser returns to GROUND
CsiFinal(c, ch) ==
    [CsiDispatch(StoreParm(c), ch) EXCEPT !.input.state = STATE_GROUND]

\* atomic_store_explicit(&input->exiting, true, memory_order_relaxed)
store_exiting(c) == [c EXCEPT !.input.exiting = TRUE]

\* input_request_exit: both flags are set
input_request_exit(c) == store_exiting([c EXCEPT !.input.exit_requested = TRUE])

\* a mutant of store_exit_requested: Ctrl-C stores both flags
store_both_flags(c) == [c EXCEPT !.input.exit_requested = TRUE, !.input.exiting = TRUE]

\* atomic_store_explicit(&input->exit_requested, true, memory_order_relaxed)
store_exit_requested(c) == [c EXCEPT !.input.exit_requested = TRUE]

\* a mutant of IsPrintable: every byte that follows a standalone ESC is
\* processed as a GROUND byte
IsAnyByte(ch) == TRUE

\* "if (ch >= 32 && ch < 127)"
IsPrintable(ch) == ch >= 32 /\ ch < 127

\* ch is a plain char: 3 Ctrl-C, 27 ESC, 79 'O', 91 '[', 62 '>', 59 ';', 48..57 digits
parse_char(c, ch) ==
    LET st == c.input.state
    IN  IF ch = 3 THEN store_exit_requested(c)
        ELSE IF ch = 27
        THEN [(IF st = STATE_ESC THEN ascii_key(c, 27) ELSE c)
                  EXCEPT !.input.state = STATE_ESC]
        ELSE IF st = STATE_GROUND THEN ascii_key(c, ch)
        ELSE IF st = STATE_ESC
        THEN IF ch = 79 THEN [c EXCEPT !.input.state = STATE_SS3]
             ELSE IF ch = 91
             THEN [c EXCEPT !.input.state = STATE_CSI, !.input.parm = 0,
                            !.input.parm_count = 0, !.input.parm_prefix = 0]
             ELSE LET c1 == [ascii_key(c, 27) EXCEPT !.input.state = STATE_GROUND]
                  IN  IF IsPrintable(ch) THEN ascii_key(c1, ch) ELSE c1
        ELSE IF st = STATE_SS3
        THEN [ss3_key(c, ch) EXCEPT !.input.state = STATE_GROUND]
        ELSE IF st = STATE_CSI
        THEN IF ch = 63 \/ ch = 62 \/ ch = 60 THEN [c EXCEPT !.input.parm_prefix = ch]
             ELSE IF ch >= 48 /\ ch <= 57
             THEN [c EXCEPT !.input.parm = @ * 10 + (ch - 48)]
             ELSE IF ch = 59 THEN [StoreParm(c) EXCEPT !.input.parm = 0]
             ELSE CsiFinal(c, ch)
        ELSE c

(***************************************************************************)
(* The input thread's loop (input_thread_func)                             *)
(***************************************************************************)
\* elapsed_ms of the standalone-ESC check
ElapsedMs(ts, esc_time) ==
    (ts.tv_sec - esc_time.tv_sec) * MSEC_PER_SEC
        + CDiv(ts.tv_nsec - esc_time.tv_nsec, NSEC_PER_MSEC)

\* a mutant of EscTimedOut: the timeout taken only after more than 100 ms
EscTimedOutStrict(elapsed_ms) == elapsed_ms > ESC_TIMEOUT_MS

EscTimedOut(elapsed_ms) == elapsed_ms >= ESC_TIMEOUT_MS

\* os_getch_timeout(1) returned -1
getch_timeout(c) ==
    IF c.input.state = STATE_ESC
    THEN IF ~c.input.esc_waiting
         THEN [c EXCEPT !.input.esc_time = clock_gettime(c.now),
                        !.input.esc_waiting = TRUE]
         ELSE IF EscTimedOut(ElapsedMs(clock_gettime(c.now), c.input.esc_time))
         THEN [ascii_key(c, 27) EXCEPT !.input.state = STATE_GROUND,
                                       !.input.esc_waiting = FALSE]
         ELSE c
    ELSE c

\* os_getch_timeout(1) returned the byte
getch_byte(c, byte) ==
    parse_char(IF c.input.state = STATE_ESC
               THEN [c EXCEPT !.input.esc_waiting = FALSE] ELSE c,
               ToChar(byte))

(***************************************************************************)
(* Initial state: input_create's designated initialiser zeroes every field *)
(***************************************************************************)
ZeroTime == [tv_sec |-> 0, tv_nsec |-> 0]

InputInit ==
    [state |-> STATE_GROUND, exiting |-> FALSE, exit_requested |-> FALSE,
     parms |-> [j \in 0..(MAX_PARMS - 1) |-> 0], parm |-> 0, parm_count |-> 0,
     parm_prefix |-> 0,
     device_attributes |-> <<>>, da_count |-> 0,
     has_cell_size |-> FALSE, cell_size |-> [first |-> 0, second |-> 0],
     has_cursor_pos |-> FALSE, cursor_pos |-> [first |-> 0, second |-> 0],
     pending_releases |-> <<>>, held_keys_bitmap |-> {},
     esc_time |-> ZeroTime, esc_waiting |-> FALSE,
     mouse |-> [last_x |-> 0, last_y |-> 0, tracking |-> FALSE,
                buttons |-> [b \in 0..2 |-> FALSE]]]

\* clock readings the thread may start at: early in a second, and shortly
\* before a second boundary
StartMs == 940
StartTimes == {0, StartMs * NSEC_PER_MSEC}

\* ev records the last step of the thread: op, the byte (or byte sequence) read,
\* the engine calls made, the parser state the step started in, and the bytes
\* read since the latest ESC byte while the parser has stayed in ESC
EvInit == [op |-> "init", ch |-> -1, calls |-> <<>>, from |-> STATE_GROUND,
           since_esc |-> {}]

\* starts: the clock readings at thread start; signs: the signedness of plain
\* char in the builds considered
InitWith(starts, signs) ==
    /\ input = InputInit
    /\ doom = [down |-> {}, twice |-> {}]
    /\ now \in starts
    /\ pc = "poll"
    /\ ev = EvInit
    /\ char_signed \in signs
    /\ renderer = <<>> /\ stdout = <<>> /\ rcall = <<>>
    /\ palette_cache = <<>> /\ pcall = <<>>
    /\ caller = <<>> /\ query_mutex = "free" /\ stdin = <<>> /\ qhist = <<>>
    /\ peer = <<>> /\ life = <<>>

Ctx == [input |-> input, doom |-> doom, calls |-> <<>>, now |-> now]

SinceEsc(c, op, ch) ==
    IF c.input.state # STATE_ESC THEN {}
    ELSE IF op # "getch" THEN ev.since_esc
    ELSE IF ch = 27 THEN {}
    ELSE ev.since_esc \cup {ch}

\* a step of the input thread ends in the context c
Step(c, op, ch, next_pc) ==
    /\ input' = c.input
    /\ doom' = c.doom
    /\ ev' = [op |-> op, ch |-> ch, calls |-> c.calls, from |-> input.state,
              since_esc |-> SinceEsc(c, op, ch)]
    /\ pc' = next_pc
    /\ UNCHANGED <<now, char_signed>>

Commit(c, op, ch, next_pc) ==
    /\ Step(c, op, ch, next_pc)
    /\ UNCHANGED <<render_vars, palette_vars, query_vars, life_vars>>

\* top of the loop: process_pending_releases, then the thread waits in os_getch_timeout
Poll ==
    /\ pc = "poll"
    /\ ~input.exiting
    /\ Commit(process_pending_releases(Ctx), "poll", -1, "read")

\* the read timed out (or failed): the ESC timeout check, then back to the top
GetchTimeout ==
    /\ pc = "read"
    /\ Commit(getch_timeout(Ctx), "timeout", -1, "poll")

\* the read returned a byte: parse_char, then back to the top
Getch(byte) ==
    /\ pc = "read"
    /\ Commit(getch_byte(Ctx, byte), "getch", byte, "poll")

\* the bytes of seq are already buffered: the loop runs once per byte, each
\* iteration after the first starting with process_pending_releases
RECURSIVE RunSeq(_, _)
RunSeq(c, seq) ==
    IF seq = <<>> THEN c
    ELSE RunSeq(getch_byte(process_pending_releases(c), Head(seq)), Tail(seq))

\* a complete escape sequence arrives at once while the parser is in GROUND
GetchSeq(seq) ==
    /\ pc = "read"
    /\ input.state = STATE_GROUND
    /\ Commit(RunSeq(getch_byte(Ctx, Head(seq)), Tail(seq)), "seq", seq, "poll")

\* the clock reading the run started at
StartOf(t) == CHOOSE t0 \in StartTimes : t0 <= t /\ t - t0 < NSEC_PER_SEC \div 2

\* the clock advances by d nanoseconds while the thread waits in the read, up
\* to the horizon (in ms after the start)
Tick(d, horizon_ms) ==
    /\ pc = "read"
    /\ now + d <= StartOf(now) + horizon_ms * NSEC_PER_MSEC
    /\ now' = now + d
    /\ UNCHANGED <<input, doom, pc, ev, char_signed>>
    /\ UNCHANGED <<render_vars, palette_vars, query_vars, life_vars>>

(***************************************************************************)
(* Spec: literal keys, Ctrl-C and the standalone ESC, byte by byte         *)
(***************************************************************************)
\* 97 'a', 27 ESC, 91 '[', 3 Ctrl-C
KeyBytes == {97, 27, 91, 3}

\* the clock steps, in nanoseconds (33 ms and 33.5 ms), and the horizon, in ms
KeyStepA == 33000000
KeyStepB == 33500000
KeyHorizonMs == 150

Init == InitWith(StartTimes, {TRUE})

TickKeys == \E d \in {KeyStepA, KeyStepB} : Tick(d, KeyHorizonMs)

GetchKeys == \E byte \in KeyBytes : Getch(byte)

Next == Poll \/ GetchTimeout \/ GetchKeys \/ TickKeys

Spec == Init /\ [][Next]_vars

(***************************************************************************)
(* Vocabulary of the properties                                            *)
(***************************************************************************)
TimeNs(ts) == ts.tv_sec * NSEC_PER_SEC + ts.tv_nsec

HasPending(inp, key) == FindPending(inp, key) # 0

\* the step dispatched key through the hold rule: a key-down only if the key
\* was not held, and (the list having room or an entry for it) a release
\* delay_ms from now
HoldDispatch(key, delay_ms) ==
    /\ ev'.calls = IF key \in input.held_keys_bitmap THEN <<>> ELSE << <<"down", key>> >>
    /\ (HasPending(input, key) \/ pending_count(input) < MAX_PENDING_RELEASES)
           => /\ HasPending(input', key)
              /\ input'.pending_releases[FindPending(input', key)].release_time
                     = ReleaseTime(now, delay_ms)
    /\ pending_count(input') <= pending_count(input) + 1

\* a step that reads a literal key byte in GROUND
LiteralStep ==
    pc = "read" /\ ev'.op = "getch" /\ input.state = STATE_GROUND /\ ev'.ch \notin {3, 27}

\* a step of the thread that took the read's timeout branch in state ESC
EscTimeoutStep == pc = "read" /\ ev'.op = "timeout" /\ input.state = STATE_ESC

\* ... and dispatched the standalone ESC
EscTimeoutDispatch == EscTimeoutStep /\ input'.state = STATE_GROUND

\* the 100 ms of the standalone-ESC wait have elapsed
EscWaitOver ==
    input.esc_waiting /\ now - TimeNs(input.esc_time) >= ESC_TIMEOUT_MS * NSEC_PER_MSEC

\* the wait has not started, or has lasted 99 ms or less
EscWaitShort ==
    \/ ~input.esc_waiting
    \/ now - TimeNs(input.esc_time) <= (ESC_TIMEOUT_MS - 1) * NSEC_PER_MSEC

(***************************************************************************)
(* C9, as stated: once the parser has waited 100 ms in ESC without a byte, *)
(* the timeout dispatches exactly one literal ESC key through the hold     *)
(* rule (50 ms) and the parser returns to GROUND; and when any byte has    *)
(* arrived since the ESC, no timeout dispatch happens for that ESC.        *)
(***************************************************************************)
C9_EscTimeoutAnyByte ==
    [][ /\ (EscTimeoutStep /\ EscWaitOver)
            => /\ input'.state = STATE_GROUND
               /\ ~input'.esc_waiting
               /\ HoldDispatch(DOOM_KEY_ESCAPE, HOLD_MS)
        /\ (EscTimeoutStep /\ EscWaitShort)
            => input'.state = STATE_ESC /\ ev'.calls = <<>>
        /\ EscTimeoutDispatch => ev.since_esc = {}
      ]_vars

(***************************************************************************)
(* C9, amended: as above, but only a byte other than Ctrl-C (0x03) rules   *)
(* the timeout dispatch out; a 0x03 read in ESC leaves the parser in ESC   *)
(* and restarts the 100 ms wait, and every other byte read in ESC ends     *)
(* that ESC (the parser leaves ESC, or the byte is a new ESC).             *)
(***************************************************************************)
C9_EscTimeout ==
    [][ /\ (EscTimeoutStep /\ EscWaitOver)
            => /\ input'.state = STATE_GROUND
               /\ ~input'.esc_waiting
               /\ HoldDispatch(DOOM_KEY_ESCAPE, HOLD_MS)
        /\ (EscTimeoutStep /\ EscWaitShort)
            => input'.state = STATE_ESC /\ ev'.calls = <<>>
        /\ EscTimeoutDispatch => ev.since_esc \subseteq {3}
        /\ (pc = "read" /\ ev'.op = "getch" /\ input.state = STATE_ESC)
            => /\ ~input'.esc_waiting
               /\ ev'.ch = 3 => input'.state = STATE_ESC /\ ev'.calls = <<>>
               /\ ev'.ch # 3 => (input'.state # STATE_ESC \/ ev'.ch = 27)
      ]_vars

\* C9's case: the timeout has just dispatched a standalone ESC
C9_Witness ==
    /\ ev.op = "timeout" /\ ev.from = STATE_ESC /\ input.state = STATE_GROUND
    /\ ev.calls = << <<"down", DOOM_KEY_ESCAPE>> >>
    /\ HasPending(input, DOOM_KEY_ESCAPE)

(***************************************************************************)
(* SpecParser: the escape-sequence parser under long and interrupted       *)
(* sequences; the clock stands still                                       *)
(***************************************************************************)
\* 27 ESC, 91 '[', 3 Ctrl-C, 7 BEL, 120 'x'
ParserBytes == {27, 91, 3, 7, 120}

\* the byte the terminal sends only inside a CSI sequence: 59 ';'
CsiOnlyBytes == {59}

\* the digit sent: 55 '7'
ParserDigit == 55

\* parameters are at most MaxDigits digits long, and digits are sent only for
\* the first parameter and from parameter DigitsFrom on
MaxDigits == 1
DigitsFrom == 31

InitParser == InitWith({0}, {TRUE})

GetchParser == \E byte \in ParserBytes : Getch(byte)

GetchCsiOnly ==
    /\ input.state = STATE_CSI
    /\ \E byte \in CsiOnlyBytes : Getch(byte)

GetchDigit ==
    /\ input.state = STATE_CSI
    /\ input.parm < 10 ^ (MaxDigits - 1)
    /\ input.parm_count = 0 \/ input.parm_count + 1 >= DigitsFrom
    /\ Getch(ParserDigit)

NextParser == Poll \/ GetchParser \/ GetchCsiOnly \/ GetchDigit

SpecParser == InitParser /\ [][NextParser]_vars

\* the bytes that continue a CSI sequence: digits, ';', '?', '>', '<'
CsiContinue == (48..57) \cup {59, 63, 62, 60}

\* the last step read a byte in state CSI
ReadInCsi == ev.op = "getch" /\ ev.from = STATE_CSI

(***************************************************************************)
(* C7, as stated: a byte read in CSI that is a control byte (0x00-0x1F) or *)
(* any other byte that is no digit, ';', '?', '>' or '<' leaves the parser *)
(* in GROUND.                                                              *)
(***************************************************************************)
C7_CsiAnyByteToGround ==
    (ReadInCsi /\ ToChar(ev.ch) \notin CsiContinue) => input.state = STATE_GROUND

(***************************************************************************)
(* C7, amended: a byte read in CSI that is no digit, ';', '?', '>' or '<'  *)
(* leaves the parser in GROUND unless it is Ctrl-C (0x03), which sets the  *)
(* exit request and leaves the parser in CSI, or ESC (0x1B), which moves   *)
(* the parser to ESC.                                                      *)
(***************************************************************************)
C7_CsiToGround ==
    ReadInCsi =>
        LET ch == ToChar(ev.ch)
        IN  CASE ch = 3 -> input.state = STATE_CSI /\ input.exit_requested
              [] ch = 27 -> input.state = STATE_ESC
              [] ch \in CsiContinue -> input.state = STATE_CSI
              [] OTHER -> input.state = STATE_GROUND

\* C7's case: a control byte (BEL) has interrupted a CSI sequence
C7_Witness == ReadInCsi /\ ev.ch = 7 /\ input.state = STATE_GROUND

(***************************************************************************)
(* C8: parm_count stays within 0..32; with 32 parameters stored, a further *)
(* ';' or a final byte stores nothing: the count stays 32 and the 32       *)
(* stored values are unchanged.                                            *)
(***************************************************************************)
C8_ParmCapacity ==
    /\ [](input.parm_count \in 0..MAX_PARMS)
    /\ [][ (pc = "read" /\ input.state = STATE_CSI /\ input.parm_count = MAX_PARMS)
            => /\ input'.parm_count = MAX_PARMS
               /\ input'.parms = input.parms ]_vars

\* C8's case: the final byte of a sequence arrived with 32 parameters stored
\* and its own parameter (7) was dropped
C8_Witness ==
    /\ ReadInCsi /\ ev.ch = 120 /\ input.state = STATE_GROUND
    /\ input.parm_count = MAX_PARMS /\ input.parm = 7
    /\ input.parms[MAX_PARMS - 1] # 7

(***************************************************************************)
(* SpecCsi: arrow and function keys arriving as whole sequences, with and  *)
(* without a modifier, and a literal key, under passing time               *)
(***************************************************************************)
\* ESC [ A (Up), ESC [ 1 5 ~ (F5), ESC [ 1 ; 2 A (Shift+Up)
SeqUp == <<27, 91, 65>>
SeqF5 == <<27, 91, 49, 53, 126>>
SeqShiftUp == <<27, 91, 49, 59, 50, 65>>
CsiSeqs == {SeqUp, SeqF5, SeqShiftUp}

\* the key, the hold and the modifier parameter of each sequence
SeqKey(seq) == IF seq = SeqF5 THEN DOOM_KEY_F5 ELSE DOOM_KEY_UP_ARROW
SeqHoldMs(seq) == IF seq = SeqF5 THEN HOLD_MS ELSE ARROW_HOLD_MS
SeqModifiers(seq) == IF seq = SeqShiftUp THEN <<DOOM_KEY_SHIFT>> ELSE <<>>

\* the clock steps, in nanoseconds (27 ms and 27.5 ms), and the horizon, in ms
CsiStepA == 27000000
CsiStepB == 27500000
CsiHorizonMs == 110

InitCsi == InitWith(StartTimes, {TRUE})

TickCsi == \E d \in {CsiStepA, CsiStepB} : Tick(d, CsiHorizonMs)

GetchCsiSeq == \E seq \in CsiSeqs : GetchSeq(seq)

\* 97 'a'
GetchLiteral == Getch(97)

NextCsi == Poll \/ GetchTimeout \/ GetchCsiSeq \/ GetchLiteral \/ TickCsi

SpecCsi == InitCsi /\ [][NextCsi]_vars

\* the step reads the whole sequence seq
SeqStep(seq) == pc = "read" /\ ev'.op = "seq" /\ ev'.ch = seq

\* no entry of the list is due (process_pending_releases would remove nothing)
NoneDue ==
    \A i \in 1..pending_count(input) :
        ~Expired(clock_gettime(now), input.pending_releases[i].release_time)

\* the time left until key's release, in nanoseconds
Remaining(key) ==
    TimeNs(input.pending_releases[FindPending(input, key)].release_time) - now

\* the list without the entries of the keys in the sequence keys
WithoutKeys(list, keys) ==
    SelectSeq(list, LAMBDA pr : \A j \in 1..Len(keys) : pr.key # keys[j])

\* the step treated seq as a distinct new keypress: key-up, then the
\* modifiers' and the key's key-down, and the key's entry replaced by a fresh
\* one at the end of the list
DistinctOutcome(seq) ==
    LET key  == SeqKey(seq)
        mods == SeqModifiers(seq)
    IN  /\ ev'.calls = << <<"up", key>> >>
                          \o [j \in 1..Len(mods) |-> <<"down", mods[j]>>]
                          \o << <<"down", key>> >>
        /\ WithoutKeys(input'.pending_releases, mods)
               = Append(WithoutKeys(RemoveAt(input.pending_releases,
                                             FindPending(input, key)), mods),
                        [key |-> key, release_time |-> ReleaseTime(now, SeqHoldMs(seq))])

\* the step treated seq as a repeat: no call, and only the deadline of the
\* key's entry changed
RepeatOutcome(seq) ==
    /\ ev'.calls = <<>>
    /\ input'.pending_releases =
           [input.pending_releases EXCEPT ![FindPending(input, SeqKey(seq))].release_time =
                                              ReleaseTime(now, SeqHoldMs(seq))]

\* seq arrives while its key is held and its release is still ahead
HeldSeqStep(seq) == SeqStep(seq) /\ NoneDue /\ HasPending(input, SeqKey(seq))

NoDuplicateKey(inp) ==
    \A i, j \in 1..pending_count(inp) :
        inp.pending_releases[i].key = inp.pending_releases[j].key => i = j

(***************************************************************************)
(* C5: the pending-release list never holds two entries for one key code;  *)
(* a literal key scheduled while it has an entry changes only that entry's *)
(* deadline, the entry count and all other entries staying as they were.   *)
(***************************************************************************)
C5_OneEntryPerKey ==
    /\ [] NoDuplicateKey(input)
    /\ [][ LET key == AsciiDoomKey(ToChar(ev'.ch))
           IN  (LiteralStep /\ HasPending(input, key))
                   => input'.pending_releases =
                          [input.pending_releases EXCEPT ![FindPending(input, key)].release_time =
                                                             ReleaseTime(now, HOLD_MS)]
         ]_vars

\* C5's case: 'a' was scheduled again while it and two other keys had entries
C5_Witness ==
    /\ ev.op = "getch" /\ ev.ch = 97 /\ ev.calls = <<>>
    /\ HasPending(input, 97)
    /\ pending_count(input) >= 3

(***************************************************************************)
(* SpecFull: seventeen distinct literal keys rolled within one hold window *)
(* (one more than the pending-release list holds), the thread running on   *)
(***************************************************************************)
\* a b c d e g h j k l m n o p q r s
FullKeys == <<97, 98, 99, 100, 101, 103, 104, 106, 107, 108, 109, 110, 111, 112,
              113, 114, 115>>

\* the clock step, in nanoseconds (50 ms); bytes arrive during the first
\* FullHorizonMs milliseconds
FullStep == 50000000
FullHorizonMs == 50

InitFull == InitWith({0}, {TRUE})

\* the next key of the roll, or the latest one again
GetchRoll ==
    \E j \in 1..Len(FullKeys) :
        /\ j \in {pending_count(input), pending_count(input) + 1}
        /\ now <= FullHorizonMs * NSEC_PER_MSEC
        /\ Getch(FullKeys[j])

\* the clock advances while bytes may still arrive or a release is not yet due
TickFull ==
    /\ \/ now < FullHorizonMs * NSEC_PER_MSEC
       \/ \E i \in 1..pending_count(input) :
              ~Expired(clock_gettime(now), input.pending_releases[i].release_time)
    /\ now' = now + FullStep
    /\ UNCHANGED <<input, doom, pc, ev, char_signed>>
    /\ UNCHANGED <<render_vars, palette_vars, query_vars, life_vars>>

NextFull == Poll \/ GetchTimeout \/ GetchRoll \/ TickFull

\* the thread keeps running (each read returns within its 1 ms timeout) and
\* the clock keeps advancing
SpecFull ==
    /\ InitFull /\ [][NextFull]_vars
    /\ WF_vars(Poll) /\ WF_vars(GetchTimeout) /\ WF_vars(TickFull)

(***************************************************************************)
(* C1: a literal key byte received again while its key is down (its        *)
(* key-down sent, its release not yet due) sends no key-down and no        *)
(* key-up, and moves the key's release to 50 ms from now.                  *)
(***************************************************************************)
C1_LiteralHold ==
    [][ LET key == AsciiDoomKey(ToChar(ev'.ch))
        IN  (LiteralStep /\ key \in doom.down)
                => /\ ev'.calls = <<>>
                   /\ HasPending(input', key)
                   /\ input'.pending_releases[FindPending(input', key)].release_time
                          = ReleaseTime(now, HOLD_MS)
      ]_vars

(***************************************************************************)
(* C3: every key-down sent to the engine is eventually followed by a       *)
(* key-up for the same key, the input thread running on.                   *)
(***************************************************************************)
C3_NoStuckKey ==
    \A j \in {1, Len(FullKeys)} :
        (FullKeys[j] \in doom.down) ~> (FullKeys[j] \notin doom.down)

(***************************************************************************)
(* C4: for every key code, the bitmap bit is set if and only if a key-down *)
(* has been sent to the engine and no key-up since.                        *)
(***************************************************************************)
C4_BitmapIffDown ==
    \A k \in 0..(MAX_KEY_CODE - 1) : k \in input.held_keys_bitmap <=> k \in doom.down

(***************************************************************************)
(* SpecHigh: a literal key and a byte above 0x7F, on builds with signed    *)
(* and with unsigned plain char                                            *)
(***************************************************************************)
\* 97 'a', 233 (0xE9, the first byte of a UTF-8 or the Latin-1 e-acute)
HighBytes == {97, 233}

\* the clock step, in nanoseconds (30 ms), and the horizon, in ms
HighStep == 30000000
HighHorizonMs == 120

InitHigh == InitWith({0}, BOOLEAN)

GetchHigh == \E byte \in HighBytes : Getch(byte)

TickHigh == Tick(HighStep, HighHorizonMs)

NextHigh == Poll \/ GetchTimeout \/ GetchHigh \/ TickHigh

SpecHigh == InitHigh /\ [][NextHigh]_vars

\* the key codes a byte can be dispatched as: a plain char, or a DOOM_KEY_ code
KeyCodes == (-128)..(MAX_KEY_CODE - 1)

(***************************************************************************)
(* C6: a key code's held bit is set exactly when the pending-release list  *)
(* holds an entry for that key code.                                       *)
(***************************************************************************)
C6_BitIffPending ==
    \A k \in KeyCodes : is_key_held(Ctx, k) <=> HasPending(input, k)

(***************************************************************************)
(* SpecMouse: SGR mouse reports ESC [ < Cb ; Cx ; Cy M|m, each arriving as *)
(* a whole sequence                                                        *)
(***************************************************************************)
\* the decimal digits of n as bytes, as the terminal writes them
RECURSIVE Digits(_)
Digits(n) == IF n < 10 THEN <<48 + n>> ELSE Digits(n \div 10) \o <<48 + (n % 10)>>

\* 27 ESC, 91 '[', 60 '<', 59 ';'
MouseSeq(cb, cx, cy, final_char) ==
    <<27, 91, 60>> \o Digits(cb) \o <<59>> \o Digits(cx) \o <<59>> \o Digits(cy)
        \o <<final_char>>

\* button codes: 0 left button, 35 motion with no button, 64 wheel up;
\* columns, rows, and the final bytes 77 'M' and 109 'm'
MouseButtons == {0, 35, 64}
MouseCols == {1, 5, 150}
MouseRows == {1, 3}
MouseFinals == {77, 109}

\* the clock step, in nanoseconds (50 ms), and the horizon, in ms
MouseTick == 50000000
MouseHorizonMs == 100

InitMouse == InitWith({0}, {TRUE})

GetchMouse ==
    \E cb \in MouseButtons, cx \in MouseCols, cy \in MouseRows, final_char \in MouseFinals :
        GetchSeq(MouseSeq(cb, cx, cy, final_char))

TickMouse == Tick(MouseTick, MouseHorizonMs)

NextMouse == Poll \/ GetchTimeout \/ GetchMouse \/ TickMouse

SpecMouse == InitMouse /\ [][NextMouse]_vars

\* the step reads the report (cb, cx, cy, final_char)
ReportStep(cb, cx, cy, final_char) ==
    pc = "read" /\ ev'.op = "seq" /\ ev'.ch = MouseSeq(cb, cx, cy, final_char)

\* the calls of the kind given ("move", "down", "up") among calls
CallsOf(calls, kinds) == SelectSeq(calls, LAMBDA call : call[1] \in kinds)

\* d limited to lo..hi
Limited(d, lo, hi) == IF d < lo THEN lo ELSE IF d > hi THEN hi ELSE d

\* the delta the claim gives for a coordinate moving from ref to new
ClaimedDelta(new, ref) ==
    Limited(new - ref, -MAX_DELTA_CLAMP, MAX_DELTA_CLAMP) * MOUSE_SENSITIVITY

\* the first non-wheel report only records the reference and sets tracking
FirstReportOnlyRecords(cx, cy) ==
    /\ CallsOf(ev'.calls, {"move", "down"}) = <<>>
    /\ input'.mouse = [input.mouse EXCEPT !.last_x = cx, !.last_y = cy, !.tracking = TRUE]
    /\ \A i \in 1..pending_count(input') :
           \E j \in 1..pending_count(input) :
               input'.pending_releases[i] = input.pending_releases[j]

(***************************************************************************)
(* C10, as stated: the first non-wheel report (tracking false) only        *)
(* records its column and row as reference and sets tracking, with no      *)
(* mouse_move; a report after it produces a mouse_move whose delta on each *)
(* axis is (new - reference) clamped to [-100, 100] and multiplied by 10.  *)
(***************************************************************************)
C10_NextReportMoves ==
    [][ \A cb \in MouseButtons \ {64}, cx \in MouseCols, cy \in MouseRows,
           final_char \in MouseFinals :
            ReportStep(cb, cx, cy, final_char) =>
                IF ~input.mouse.tracking
                THEN FirstReportOnlyRecords(cx, cy)
                ELSE CallsOf(ev'.calls, {"move"})
                         = << <<"move", ClaimedDelta(cx, input.mouse.last_x),
                                        ClaimedDelta(cy, input.mouse.last_y)>> >>
      ]_vars

(***************************************************************************)
(* C10, amended: as above, but a later non-wheel report produces the       *)
(* mouse_move (and becomes the new reference) only if its column or row    *)
(* differs from the reference; a report at the reference position produces *)
(* no mouse_move and leaves the reference as it is.                        *)
(***************************************************************************)
C10_MouseReference ==
    [][ \A cb \in MouseButtons \ {64}, cx \in MouseCols, cy \in MouseRows,
           final_char \in MouseFinals :
            ReportStep(cb, cx, cy, final_char) =>
                IF ~input.mouse.tracking
                THEN FirstReportOnlyRecords(cx, cy)
                ELSE IF cx = input.mouse.last_x /\ cy = input.mouse.last_y
                THEN /\ CallsOf(ev'.calls, {"move"}) = <<>>
                     /\ input'.mouse.last_x = input.mouse.last_x
                     /\ input'.mouse.last_y = input.mouse.last_y
                ELSE /\ CallsOf(ev'.calls, {"move"})
                            = << <<"move", ClaimedDelta(cx, input.mouse.last_x),
                                           ClaimedDelta(cy, input.mouse.last_y)>> >>
                     /\ input'.mouse.last_x = cx /\ input'.mouse.last_y = cy
      ]_vars

\* C10's case: with the reference at column 1, row 1, a motion report at
\* column 150, row 3 produced mouse_move(1000, 20)
C10_Witness ==
    /\ ev.op = "seq" /\ ev.ch = MouseSeq(35, 150, 3, 77)
    /\ ev.calls = << <<"move", MAX_DELTA_CLAMP * MOUSE_SENSITIVITY, 2 * MOUSE_SENSITIVITY>> >>
    /\ input.mouse.tracking /\ input.mouse.last_x = 150 /\ input.mouse.last_y = 3

(***************************************************************************)
(* The renderer (src/src/render.c).  A frame is formatted into the         *)
(* protocol buffer as a sequence of pieces (chunk header, payload,         *)
(* trailer, animate command, newline) and handed to the output stream.     *)
(* A piece records what it is, the image id, placement size and m flag it  *)
(* carries, the part of the base64 data it copies (from, len) and its      *)
(* length in bytes.  The base64 encoder (base64.h) is represented by the   *)
(* length of its output.                                                   *)
(***************************************************************************)
WIDTH == 320
HEIGHT == 200
chunk_size == 4096
PROTOCOL_BUFFER_SIZE == 280 * 1024

Max(a, b) == IF a > b THEN a ELSE b
Min(a, b) == IF a < b THEN a ELSE b

\* int is 32 bits wide
INT_MAX == 2^30 + (2^30 - 1)
INT_MIN == -INT_MAX - 1

\* the number of characters %d and %ld print: the digits, and a '-' before
\* those of a negative value (q is |n| \div 10, which INT_MIN has too)
DecLen(n) ==
    IF n >= 0 THEN Len(Digits(n))
    ELSE LET less == -(n + 1)
             q == less \div 10 + (IF less % 10 = 9 THEN 1 ELSE 0)
         IN  1 + (IF q = 0 THEN 1 ELSE Len(Digits(q)) + 1)

Piece(kind, i, c, rows, m, from, len) ==
    [kind |-> kind, i |-> i, c |-> c, r |-> rows, m |-> m, from |-> from, len |-> len]

\* the four header formats; ESC is one byte
chunk_header(r, first, more_chunks) ==
    LET m == IF more_chunks THEN 1 ELSE 0
    IN  IF first
        THEN IF r.frame_number = 0
             THEN Piece("create", r.kitty_id, r.screen_cols, r.screen_rows, m, 0,
                        1 + Len("_Ga=T,i=") + DecLen(r.kitty_id) + Len(",f=24,s=")
                          + DecLen(WIDTH) + Len(",v=") + DecLen(HEIGHT)
                          + Len(",q=2,c=") + DecLen(r.screen_cols) + Len(",r=")
                          + DecLen(r.screen_rows) + Len(",m=") + DecLen(m) + Len(";"))
             ELSE Piece("update", r.kitty_id, -1, -1, m, 0,
                        1 + Len("_Ga=f,r=1,i=") + DecLen(r.kitty_id)
                          + Len(",f=24,x=0,y=0,s=") + DecLen(WIDTH) + Len(",v=")
                          + DecLen(HEIGHT) + Len(",m=") + DecLen(m) + Len(";"))
        ELSE IF r.frame_number = 0
             THEN Piece("more", -1, -1, -1, m, 0,
                        1 + Len("_Gm=") + DecLen(m) + Len(";"))
             ELSE Piece("more_update", -1, -1, -1, m, 0,
                        1 + Len("_Ga=f,r=1,m=") + DecLen(m) + Len(";"))

Payload(encoded_offset, this_size) ==
    Piece("payload", -1, -1, -1, -1, encoded_offset, this_size)

\* ESC '\'
Trailer == Piece("trailer", -1, -1, -1, -1, 0, 2)

\* ESC _Ga=a,c=1,i=<id>; ESC '\'
Animate(r) ==
    Piece("animate", r.kitty_id, -1, -1, -1, 0,
          1 + Len("_Ga=a,c=1,i=") + DecLen(r.kitty_id) + Len(";") + 2)

\* CR LF
Newline == Piece("newline", -1, -1, -1, -1, 0, 2)

\* ESC [H, printed and flushed on its own
Home == Piece("home", -1, -1, -1, -1, 0, 1 + Len("[H"))

\* The formatting state: encoded_offset and buf_offset as in the code, the
\* pieces formatted so far, stored = one more than the highest index of the
\* buffer written so far, and error = the call has reported an error
FormatInit ==
    [encoded_offset |-> 0, buf_offset |-> 0, pieces |-> <<>>, stored |-> 0,
     error |-> FALSE]

\* snprintf(buf + buf_offset, rem, ...) and the check of its return value:
\* snprintf stores at most rem - 1 characters and a NUL, nothing when rem is 0
format_into(st, size, piece) ==
    LET rem == size - st.buf_offset
        s1  == [st EXCEPT !.stored =
                   IF rem = 0 THEN @
                   ELSE Max(@, st.buf_offset + Min(piece.len, rem - 1) + 1)]
    IN  IF piece.len >= rem
        THEN [s1 EXCEPT !.error = TRUE]
        ELSE [s1 EXCEPT !.buf_offset = @ + piece.len,
                        !.pieces = Append(@, piece)]

\* a mutant of Fits: the copy is made whatever the remaining capacity
FitsAlways(buf_offset, n, size) == TRUE

\* the check made before each memcpy
Fits(buf_offset, n, size) == ~(buf_offset + n > size)

\* the check, then memcpy(buf + buf_offset, ..., len)
copy_into(st, size, piece) ==
    IF ~Fits(st.buf_offset, piece.len, size)
    THEN [st EXCEPT !.error = TRUE]
    ELSE [st EXCEPT !.stored = Max(@, st.buf_offset + piece.len),
                    !.buf_offset = @ + piece.len,
                    !.pieces = Append(@, piece)]

\* a mutant of MoreChunks: a chunk that ends exactly at the end of the data
\* still announces another one
MoreChunksInclusive(encoded_offset, encoded_size) ==
    (encoded_offset + chunk_size) <= encoded_size

MoreChunks(encoded_offset, encoded_size) ==
    (encoded_offset + chunk_size) < encoded_size

\* F applied to the value of v (v is evaluated once)
With(v, F(_)) == CHOOSE out \in {F(x) : x \in {v}} : TRUE

\* the loop condition of render.c:132, with the early returns of the body
LoopDone(encoded_size, st) == st.error \/ ~(st.encoded_offset < encoded_size)

\* one iteration of the chunk loop (render.c:133-208); s1, s2 and s3 are the
\* states after the header, the payload and the trailer of the chunk
chunk_iteration(r, encoded_size, st0) ==
    With(st0, LAMBDA st :
        IF LoopDone(encoded_size, st) THEN st
        ELSE LET more_chunks == MoreChunks(st.encoded_offset, encoded_size)
                 this_size == IF more_chunks THEN chunk_size
                              ELSE encoded_size - st.encoded_offset
                 size == r.protocol_buffer_size
                 s1 == format_into(st, size,
                                   chunk_header(r, st.encoded_offset = 0, more_chunks))
                 s2 == IF s1.error THEN s1
                       ELSE copy_into(s1, size, Payload(st.encoded_offset, this_size))
                 s3 == IF s2.error THEN s2 ELSE copy_into(s2, size, Trailer)
             IN  IF s3.error THEN s3
                 ELSE [s3 EXCEPT !.encoded_offset = @ + this_size])

\* at most n iterations of the chunk loop from the state st0 on, the first
\* half of them and then the rest
RECURSIVE chunk_iterations(_, _, _, _)
chunk_iterations(r, encoded_size, st0, n) ==
    With(st0, LAMBDA st :
        IF LoopDone(encoded_size, st) THEN st
        ELSE IF n = 1 THEN chunk_iteration(r, encoded_size, st)
        ELSE With(chunk_iterations(r, encoded_size, st, n \div 2), LAMBDA half :
                  chunk_iterations(r, encoded_size, half, n - n \div 2)))

\* the chunk loop (render.c:132-209), from the state st0 on: every iteration
\* advances encoded_offset, so the loop ends within encoded_size iterations
render_chunks(r, encoded_size, st0) ==
    chunk_iterations(r, encoded_size, st0, Max(encoded_size, 1))

\* a mutant of NeedsAnimate: the animate command is sent with every frame
NeedsAnimateAlways(r) == TRUE

NeedsAnimate(r) == r.frame_number > 0

\* a mutant of frame_writes: what was formatted before the error is written
frame_writes_partial(home, st) == Append(home, st.pieces)

\* the writes of a call: the error returns come before fwrite (render.c:243)
frame_writes(home, st) == IF st.error THEN home ELSE Append(home, st.pieces)

\* a mutant of home_writes: the cursor is sent home before every frame
home_writes_always(r) == << <<Home>> >>

\* printf and fflush of the cursor-home sequence, before anything is formatted
home_writes(r) == IF r.frame_number = 0 THEN << <<Home>> >> ELSE <<>>

\* a mutant of NeedsNewline: the newline is added to every frame
NeedsNewlineAlways(r) == TRUE

NeedsNewline(r) == r.frame_number = 0

\* renderer_render_frame for a frame whose base64 data is encoded_size bytes
\* long: the writes made to the output stream (each a sequence of pieces), the
\* frame counter afterwards, and the final formatting state.  The increment
\* of a counter that is INT_MAX is undefined: the action that renders such a
\* frame chooses the outcome.
renderer_render_frame(r, encoded_size) ==
    LET size == r.protocol_buffer_size
        home == home_writes(r)
    IN  With(render_chunks(r, encoded_size, FormatInit), LAMBDA s1 :
        With(IF ~s1.error /\ NeedsAnimate(r)
             THEN format_into(s1, size, Animate(r)) ELSE s1, LAMBDA s2 :
        With(IF ~s2.error /\ NeedsNewline(r)
             THEN copy_into(s2, size, Newline) ELSE s2, LAMBDA s3 :
        [writes |-> frame_writes(home, s3),
         frame_number |-> IF s3.error \/ r.frame_number = INT_MAX THEN r.frame_number
                          ELSE r.frame_number + 1,
         st |-> s3])))

\* renderer_create: the buffer size is PROTOCOL_BUFFER_SIZE in the program; the
\* other sizes show the formatting code at its limits.  With image id 7 and a
\* 24 x 80 screen the create header is 48 bytes long, the update header 44,
\* a continuation header 7 or 15 and the animate command 17.
ProtocolBufferSizes ==
    {0, 48, 49, 50, 52, 53, 64, 65, chunk_size + 73, 2 * chunk_size + 200,
     PROTOCOL_BUFFER_SIZE}

\* rand() returns a value in 0 .. RAND_MAX
KittyIds == {7, 2147483647}

\* lengths of the base64 data; the program's frames give 4 * ((WIDTH * HEIGHT * 3 + 2) \div 3)
EncodedSizes ==
    {1, chunk_size - 1, chunk_size, chunk_size + 1, 2 * chunk_size,
     4 * ((WIDTH * HEIGHT * 3 + 2) \div 3)}

\* render calls made in a run
MaxCalls == 3

InitRender ==
    /\ input = InputInit
    /\ doom = [down |-> {}, twice |-> {}]
    /\ now = 0
    /\ pc = "poll"
    /\ ev = EvInit
    /\ char_signed = TRUE
    /\ \E size \in ProtocolBufferSizes, id \in KittyIds :
           renderer = [screen_rows |-> 24, screen_cols |-> 80, kitty_id |-> id,
                       frame_number |-> 0, protocol_buffer_size |-> size]
    /\ stdout = <<>>
    /\ rcall = [n |-> 0, frame |-> 0, encoded_size |-> 0, writes |-> <<>>,
                st |-> FormatInit]
    /\ palette_cache = <<>> /\ pcall = <<>>
    /\ caller = <<>> /\ query_mutex = "free" /\ stdin = <<>> /\ qhist = <<>>
    /\ peer = <<>> /\ life = <<>>

RenderFrame ==
    /\ rcall.n < MaxCalls
    /\ \E encoded_size \in EncodedSizes :
           \E res \in {renderer_render_frame(renderer, encoded_size)} :
               /\ renderer' = [renderer EXCEPT !.frame_number = res.frame_number]
               /\ stdout' = stdout \o
                      [w \in 1..Len(res.writes) |->
                          [frame |-> renderer.frame_number, pieces |-> res.writes[w]]]
               /\ rcall' = [n |-> rcall.n + 1, frame |-> renderer.frame_number,
                            encoded_size |-> encoded_size, writes |-> res.writes,
                            st |-> res.st]
    /\ UNCHANGED <<thread_vars, palette_vars, query_vars, life_vars>>

NextRender == RenderFrame

SpecRender == InitRender /\ [][NextRender]_vars

\* the last call formatted its whole frame and handed it to the output stream
Transmitted == rcall.n > 0 /\ ~rcall.st.error

HeaderKinds == {"create", "update", "more", "more_update"}

\* ceil(L / chunk_size)
ChunkCount(L) == (L + chunk_size - 1) \div chunk_size

\* a mutant of EncodedCapacity: four bytes a pixel
EncodedCapacityRgba == 4 * ((WIDTH * HEIGHT * 4 + 2) \div 3)

\* the largest length the encoded buffer holds (render.c:34-35, without the NUL)
EncodedCapacity == 4 * ((WIDTH * HEIGHT * 3 + 2) \div 3)

\* the pieces are n chunks that split L bytes of data at multiples of chunk_size
IsChunking(pieces, L) ==
    LET n == ChunkCount(L)
    IN  /\ Len(pieces) >= 3 * n
        /\ \A k \in 1..Len(pieces) :
               pieces[k].kind \in HeaderKinds \cup {"payload", "trailer"} => k <= 3 * n
        /\ \A j \in 1..n :
               /\ pieces[3 * j - 2].kind \in HeaderKinds
               /\ pieces[3 * j - 2].m = (IF j < n THEN 1 ELSE 0)
               /\ pieces[3 * j - 1] =
                      Payload((j - 1) * chunk_size,
                              IF j < n THEN chunk_size ELSE L - (j - 1) * chunk_size)
               /\ pieces[3 * j] = Trailer

\* C11: a transmitted frame whose base64 data is L > 0 bytes long consists of
\* ceil(L / 4096) chunks; their payloads are consecutive parts of the data
\* that together cover it, every chunk but the last carries 4096 bytes and
\* m=1, the last carries the rest and m=0, and each chunk ends with ESC '\';
\* this is the same for every frame counter.  With the buffer the program
\* allocates, every frame the encoded buffer can hold is transmitted.
C11_Chunking ==
    /\ Transmitted => IsChunking(rcall.st.pieces, rcall.encoded_size)
    /\ (rcall.n > 0 /\ renderer.protocol_buffer_size = PROTOCOL_BUFFER_SIZE
           /\ rcall.encoded_size <= EncodedCapacity) => ~rcall.st.error

\* the third frame sent has 256000 bytes of data: 62 full chunks and one of 2048
C11_Witness ==
    /\ Transmitted /\ rcall.frame = 2 /\ rcall.encoded_size = EncodedCapacity
    /\ Len(rcall.st.pieces) = 3 * 63 + 1
    /\ rcall.st.pieces[3 * 63 - 1] = Payload(62 * chunk_size, chunk_size \div 2)
    /\ rcall.st.pieces[3 * 63 - 2].m = 0
    /\ rcall.st.pieces[3 * 62 - 2].m = 1

\* the writes that carry a frame (every write but the cursor-home ones)
FrameWrites == SelectSeq(stdout, LAMBDA w : w.pieces # <<Home>>)

AnimateCount(pieces) == Cardinality({k \in 1..Len(pieces) : pieces[k].kind = "animate"})

\* C12: the transmitted frames carry the counters 0, 1, 2, ... in order.  The
\* first one starts with the create header (a=T with the image id, the
\* 320 x 200 dimensions and the placement size) and holds no animate command;
\* every later one starts with the update header (a=f) for the same image id
\* and holds exactly one animate command, for that id, right after its last
\* chunk.
C12_CreateThenUpdate ==
    \A k \in 1..Len(FrameWrites) :
        LET w == FrameWrites[k]
            first == FrameWrites[1].pieces[1]
            last == w.pieces[Len(w.pieces)]
        IN  /\ w.frame = k - 1
            /\ k = 1 => /\ w.pieces[1].kind = "create"
                        /\ w.pieces[1].i = renderer.kitty_id
                        /\ w.pieces[1].c = renderer.screen_cols
                        /\ w.pieces[1].r = renderer.screen_rows
                        /\ AnimateCount(w.pieces) = 0
            /\ k > 1 => /\ w.pieces[1].kind = "update"
                        /\ w.pieces[1].i = first.i
                        /\ AnimateCount(w.pieces) = 1
                        /\ last = Animate([kitty_id |-> first.i])
                        /\ w.pieces[Len(w.pieces) - 1] = Trailer

\* a create frame and two update frames have been sent
C12_Witness ==
    /\ Len(FrameWrites) = 3
    /\ FrameWrites[1].pieces[1].kind = "create"
    /\ FrameWrites[3].pieces[1].kind = "update"
    /\ FrameWrites[3].pieces[Len(FrameWrites[3].pieces)].kind = "animate"
    /\ FrameWrites[3].pieces[1].i = 2147483647

\* the renderer as the last call found it
RendererAtCall == [renderer EXCEPT !.frame_number = rcall.frame]

\* the pieces of the whole frame, as a buffer without limit would receive them
WholeFrame(r, encoded_size) ==
    renderer_render_frame([r EXCEPT !.protocol_buffer_size = 2 * PROTOCOL_BUFFER_SIZE],
                          encoded_size).st.pieces

\* the capacity a formatting step asks for: snprintf wants room for the NUL too
Needs(piece) ==
    IF piece.kind \in {"payload", "trailer", "newline"} THEN piece.len ELSE piece.len + 1

\* the bytes of the pieces lo .. hi
RECURSIVE TotalLen(_, _, _)
TotalLen(pieces, lo, hi) ==
    IF lo > hi THEN 0
    ELSE IF lo = hi THEN pieces[lo].len
    ELSE LET mid == (lo + hi) \div 2
         IN  TotalLen(pieces, lo, mid) + TotalLen(pieces, mid + 1, hi)

\* some step finds less remaining capacity than it asks for
TooLittle(pieces, size) ==
    \E k \in 1..Len(pieces) : TotalLen(pieces, 1, k - 1) + Needs(pieces[k]) > size

\* the last call wrote no frame: at most the cursor-home sequence
NoFrameWritten == \A w \in 1..Len(rcall.writes) : rcall.writes[w] = <<Home>>

\* C13: if some formatting step of the call (chunk header, payload, trailer,
\* animate command, newline) finds too little remaining capacity in the
\* protocol buffer, the call reports an error, passes no byte of the frame to
\* the output stream and leaves the frame counter as it was.
C13_DropOnOverflow ==
    (rcall.n > 0 /\ TooLittle(WholeFrame(RendererAtCall, rcall.encoded_size),
                              renderer.protocol_buffer_size))
        => /\ rcall.st.error
           /\ NoFrameWritten
           /\ renderer.frame_number = rcall.frame

\* the frame after the create frame is dropped at its animate command, after
\* both of its chunks were formatted
C13_Witness ==
    /\ rcall.n > 0 /\ rcall.st.error /\ rcall.frame = 1
    /\ rcall.encoded_size = chunk_size + 1
    /\ Len(rcall.st.pieces) = 6
    /\ renderer.frame_number = 1
    /\ Len(FrameWrites) = 1

\* C14: whatever the protocol buffer size and the length of the data, the
\* write offset of a render call never exceeds the buffer size and no byte
\* is stored at an index at or beyond the buffer size (the offset only grows
\* during a call, and stored follows the highest index written).
C14_WithinBuffer ==
    /\ rcall.st.buf_offset <= renderer.protocol_buffer_size
    /\ rcall.st.stored <= renderer.protocol_buffer_size

\* after at least one chunk, snprintf had to cut its output: the buffer is
\* written up to its last byte, and the call is dropped
C14_Witness ==
    /\ rcall.n > 0 /\ rcall.st.error
    /\ Len(rcall.st.pieces) >= 3
    /\ rcall.st.buf_offset < renderer.protocol_buffer_size
    /\ rcall.st.stored = renderer.protocol_buffer_size

\* C15 as stated: every render call, at frame counter 0 too, makes exactly one
\* write to the output stream when its frame is transmitted, and no other.
C15_OneWritePerCall ==
    rcall.n > 0 => Len(rcall.writes) = (IF rcall.st.error THEN 0 ELSE 1)

\* C15, amended: a transmitted frame is sent whole by the last write of its
\* call, made after every chunk, the animate command and the newline were
\* formatted.  A call at frame counter 1 or more makes no other write (none
\* at all when the frame is dropped); a call at frame counter 0 first writes
\* and flushes the cursor-home sequence on its own, also when the frame is
\* then dropped.
C15_OneFrameWrite ==
    rcall.n > 0 =>
        LET frame == WholeFrame(RendererAtCall, rcall.encoded_size)
            own == IF rcall.st.error THEN <<>> ELSE <<frame>>
        IN  rcall.writes = (IF rcall.frame = 0 THEN << <<Home>> >> ELSE <<>>) \o own

\* the call at frame counter 0 made two writes: cursor home, then the frame
C15_Witness ==
    /\ Transmitted /\ rcall.frame = 0
    /\ Len(rcall.writes) = 2
    /\ rcall.writes[1] = <<Home>>
    /\ rcall.writes[2][Len(rcall.writes[2])] = Newline

\* the places (write, piece) of the output stream that hold a CR LF
NewlinePlaces ==
    {p \in (1..Len(stdout)) \X (1..(3 * ChunkCount(EncodedCapacity) + 1)) :
        p[2] <= Len(stdout[p[1]].pieces) /\ stdout[p[1]].pieces[p[2]].kind = "newline"}

\* C16: over any sequence of render calls, dropped ones included, the output
\* stream holds at most one CR LF; it is the last piece of the frame
\* transmitted with frame counter 0, which always ends with it, and no frame
\* with a later counter holds one.
C16_NewlineOnce ==
    /\ Cardinality(NewlinePlaces) <= 1
    /\ \A p \in NewlinePlaces :
           stdout[p[1]].frame = 0 /\ p[2] = Len(stdout[p[1]].pieces)
    /\ Len(FrameWrites) >= 1 => Cardinality(NewlinePlaces) = 1

\* three calls: a dropped one, the create frame, an update frame
C16_Witness ==
    /\ rcall.n = 3 /\ Transmitted /\ rcall.frame = 1
    /\ Len(FrameWrites) = 2
    /\ Len(stdout) = 4
    /\ Cardinality(NewlinePlaces) = 1

(***************************************************************************)
(* The palette converter (src/src/palette.c, src/src/arch/neon-palette.h). *)
(* A palette is a function from 0..767 to bytes, an index buffer a         *)
(* function from 0..npixels-1 to bytes, the output a function from         *)
(* 0..3*npixels-1 to bytes.  The build selects the scalar or the NEON      *)
(* implementation at compile time (palette.c:55-69).                       *)
(***************************************************************************)
NCOLORS == 256
BATCH == 8

\* palette_init_scalar / palette_init_neon: split the palette into channel tables
palette_init(palette) ==
    [initialized |-> TRUE,
     r |-> [c \in 0..(NCOLORS - 1) |-> palette[c * 3 + 0]],
     g |-> [c \in 0..(NCOLORS - 1) |-> palette[c * 3 + 1]],
     b |-> [c \in 0..(NCOLORS - 1) |-> palette[c * 3 + 2]]]

\* the table of channel k
Channel(cache, k) == IF k = 0 THEN cache.r ELSE IF k = 1 THEN cache.g ELSE cache.b

\* the per-pixel loop over the pixels from .. to - 1 (palette.c:44-48, and
\* the remainder loop neon-palette.h:115-120); each pass writes its own
\* three bytes
scalar_loop(cache, indexed, rgb24, from, to) ==
    [x \in DOMAIN rgb24 |->
        IF from * 3 <= x /\ x < to * 3
        THEN Channel(cache, x % 3)[indexed[x \div 3]] ELSE rgb24[x]]

palette_to_rgb24_scalar(cache, indexed, rgb24, npixels) ==
    scalar_loop(cache, indexed, rgb24, 0, npixels)

\* a mutant of vst3_u8: the three vectors are stored one after the other
vst3_u8_planar(rgb24, base, rgb) ==
    [x \in DOMAIN rgb24 |->
        IF base <= x /\ x < base + 3 * BATCH
        THEN rgb[(x - base) \div BATCH][(x - base) % BATCH] ELSE rgb24[x]]

\* vst3_u8(&rgb24[base], rgb): an interleaved store of three 8-byte vectors
vst3_u8(rgb24, base, rgb) ==
    [x \in DOMAIN rgb24 |->
        IF base <= x /\ x < base + 3 * BATCH
        THEN rgb[(x - base) % 3][(x - base) \div 3] ELSE rgb24[x]]

\* the batches from pixel i on (neon-palette.h:79-112): gather eight values
\* per channel, then store them interleaved
RECURSIVE neon_batches(_, _, _, _, _)
neon_batches(cache, indexed, rgb24, i, simd_pixels) ==
    IF ~(i < simd_pixels) THEN rgb24
    ELSE LET rgb == [k \in 0..2 |->
                        [j \in 0..(BATCH - 1) |-> Channel(cache, k)[indexed[i + j]]]]
         IN  neon_batches(cache, indexed, vst3_u8(rgb24, i * 3, rgb), i + BATCH,
                          simd_pixels)

palette_to_rgb24_neon_impl(cache, indexed, rgb24, npixels) ==
    LET simd_pixels == (npixels \div BATCH) * BATCH
    IN  scalar_loop(cache, indexed,
                    neon_batches(cache, indexed, rgb24, 0, simd_pixels),
                    simd_pixels, npixels)

\* a mutant of palette_to_rgb24: the tables are split on every call
palette_to_rgb24_every_call(build, cache, indexed, rgb24, palette, npixels) ==
    LET c1 == palette_init(palette)
    IN  [cache |-> c1,
         rgb24 |-> IF build = "neon"
                   THEN palette_to_rgb24_neon_impl(c1, indexed, rgb24, npixels)
                   ELSE palette_to_rgb24_scalar(c1, indexed, rgb24, npixels)]

\* palette_to_rgb24: the tables are initialised when the flag is not set yet;
\* the result is the cache and the output buffer after the call
palette_to_rgb24(build, cache, indexed, rgb24, palette, npixels) ==
    LET c1 == IF ~cache.initialized THEN palette_init(palette) ELSE cache
    IN  [cache |-> c1,
         rgb24 |-> IF build = "neon"
                   THEN palette_to_rgb24_neon_impl(c1, indexed, rgb24, npixels)
                   ELSE palette_to_rgb24_scalar(c1, indexed, rgb24, npixels)]

\* palettes: the one of tests/bench-palette.c, the same with every channel
\* inverted, and a grey ramp
Palettes ==
    [bench |-> [x \in 0..(3 * NCOLORS - 1) |->
                   ((x \div 3) * (IF x % 3 = 0 THEN 7 ELSE IF x % 3 = 1 THEN 13 ELSE 19))
                       % 256],
     inverted |-> [x \in 0..(3 * NCOLORS - 1) |->
                   255 - (((x \div 3) * (IF x % 3 = 0 THEN 7 ELSE IF x % 3 = 1 THEN 13 ELSE 19))
                       % 256)],
     grey |-> [x \in 0..(3 * NCOLORS - 1) |-> x \div 3]]

\* index buffers: the pattern of tests/bench-palette.c, a descending run from
\* 255, and all zero
IndexPatterns ==
    [bench |-> [i \in 0..255 |-> (i * 17) % NCOLORS],
     high |-> [i \in 0..255 |-> 255 - i],
     zero |-> [i \in 0..255 |-> 0]]

\* the largest pixel count of a call: two batches and a remainder
MaxPixels == 17

\* the output buffer holds bytes the call has not written: -1
Unwritten(npixels) == [x \in 0..(3 * npixels - 1) |-> -1]

InitPalette ==
    /\ input = InputInit
    /\ doom = [down |-> {}, twice |-> {}]
    /\ now = 0
    /\ pc = "poll"
    /\ ev = EvInit
    /\ char_signed = TRUE
    /\ renderer = <<>> /\ stdout = <<>> /\ rcall = <<>>
    /\ palette_cache = [initialized |-> FALSE,
                        r |-> [c \in 0..(NCOLORS - 1) |-> 0],
                        g |-> [c \in 0..(NCOLORS - 1) |-> 0],
                        b |-> [c \in 0..(NCOLORS - 1) |-> 0]]
    /\ pcall \in {[build |-> bd, n |-> 0, first |-> "none", palette |-> "none",
                   pattern |-> "none", npixels |-> 0, rgb24 |-> <<>>] :
                     bd \in {"scalar", "neon"}}
    /\ caller = <<>> /\ query_mutex = "free" /\ stdin = <<>> /\ qhist = <<>>
    /\ peer = <<>> /\ life = <<>>

\* a call of palette_to_rgb24; n counts the calls up to 2, first names the
\* palette of the first call
PaletteToRgb24 ==
    \E name \in DOMAIN Palettes, pattern \in DOMAIN IndexPatterns, npixels \in 0..MaxPixels :
        LET indexed == [i \in 0..(npixels - 1) |-> IndexPatterns[pattern][i]]
            res == palette_to_rgb24(pcall.build, palette_cache, indexed,
                                    Unwritten(npixels), Palettes[name], npixels)
        IN  /\ palette_cache' = res.cache
            /\ pcall' = [pcall EXCEPT !.n = Min(@ + 1, 2),
                                      !.first = IF pcall.n = 0 THEN name ELSE @,
                                      !.palette = name, !.pattern = pattern,
                                      !.npixels = npixels, !.rgb24 = res.rgb24]
            /\ UNCHANGED <<thread_vars, render_vars, query_vars, life_vars>>

NextPalette == PaletteToRgb24

SpecPalette == InitPalette /\ [][NextPalette]_vars

\* the naive per-pixel reference (tests/bench-palette.c:36-45)
palette_to_rgb24_scalar_ref(indexed, palette, npixels) ==
    [x \in 0..(3 * npixels - 1) |-> palette[indexed[x \div 3] * 3 + (x % 3)]]

\* the index buffer of the last call
LastIndexed == [i \in 0..(pcall.npixels - 1) |-> IndexPatterns[pcall.pattern][i]]

\* C17: after every call of palette_to_rgb24, in both builds and for every
\* pixel count, index content and palette content, the output equals the
\* per-pixel reference computed with the palette passed to that call:
\* output[3i+k] = palette[3*indexed[i]+k].
C17_EqualsReference ==
    pcall.n > 0 =>
        pcall.rgb24 = palette_to_rgb24_scalar_ref(LastIndexed, Palettes[pcall.palette],
                                                  pcall.npixels)

\* what the code does instead: in both builds and for every pixel count, 0
\* and counts that are no multiple of 8 included, the output equals the
\* per-pixel reference computed with the palette of the first call
EqualsReferenceOfFirst ==
    pcall.n > 0 =>
        pcall.rgb24 = palette_to_rgb24_scalar_ref(LastIndexed, Palettes[pcall.first],
                                                  pcall.npixels)

(***************************************************************************)
(* Terminal queries (input.c:832-936).  A caller thread locks query_mutex, *)
(* writes the query, waits on query_condition and reads the shared fields; *)
(* the input thread parses the replies and stores them (input.c:594-617,   *)
(* 399-422).  caller.pc is "idle", "locked" (mutex held, query not yet     *)
(* written), "check" (at the test of the wait loop), "waiting" (inside     *)
(* pthread_cond_wait or pthread_cond_timedwait, mutex released) or "have"  *)
(* (the wait is over, mutex held).  CLOCK_REALTIME is taken to run with    *)
(* the clock now.                                                          *)
(*                                                                         *)
(* qhist is history: parsed lists the replies stored so far (kind, time,   *)
(* row), src tells for each shared datum which of them it holds (0: none), *)
(* sent counts the replies the terminal has produced, and acc is the last  *)
(* access to the shared query fields: the thread, the fields, and whether  *)
(* the thread held query_mutex.                                            *)
(***************************************************************************)
QUERY_TIMEOUT_SEC == 2
FALLBACK_ROWS == 24
FALLBACK_COLS == 80
FALLBACK_CELL_HEIGHT == 20
FALLBACK_CELL_WIDTH == 10

\* replies of the terminal: ESC [ ? 62 ; k c, ESC [ 4 ; 16 ; 8 t and
\* ESC [ 50+k ; 132 R for the k-th reply
DaReply(k) == <<27, 91, 63>> \o Digits(62) \o <<59>> \o Digits(k) \o <<99>>
CellReply == <<27, 91>> \o Digits(4) \o <<59>> \o Digits(16) \o <<59>> \o Digits(8) \o <<116>>
PosReply(k) == <<27, 91>> \o Digits(50 + k) \o <<59>> \o Digits(132) \o <<82>>

\* the final byte of a reply tells its kind
ReplyKind(seq) ==
    LET final == seq[Len(seq)]
    IN  IF final = 99 THEN "da" ELSE IF final = 116 THEN "cell" ELSE "pos"

\* queries a caller makes in a run, unsolicited replies, and the clock
MaxQueries == 2
MaxUnsolicited == 1
QueryStepMs == 1000
QueryHorizonMs == 2000

NoAccess == [thread |-> "none", fields |-> {}, locked |-> TRUE]

\* own is the number of the reply the terminal gives to the query the thread
\* has written (0: none)
CallerInit ==
    [pc |-> "idle", fn |-> "none", n |-> 0, mark |-> 0, deadline |-> ZeroTime,
     signalled |-> FALSE, wait_result |-> 0, own |-> 0,
     last |-> [fn |-> "none", result |-> <<>>, src |-> 0, mark |-> 0,
               deadline |-> ZeroTime, fallback |-> FALSE, own |-> 0]]

\* a thread that is not there
Absent == [CallerInit EXCEPT !.pc = "absent"]

\* the threads that call the query functions, and the record of each
Threads == {"caller", "peer"}
Thread(self) == IF self = "caller" THEN caller ELSE peer
Other(self) == IF self = "caller" THEN "peer" ELSE "caller"

\* the record of self becomes rec and the other thread's stays
Becomes(self, rec) ==
    IF self = "caller" THEN caller' = rec /\ UNCHANGED peer
    ELSE peer' = rec /\ UNCHANGED caller

\* second: the second caller thread at the start
InitCallers(second) ==
    /\ input = InputInit
    /\ doom = [down |-> {}, twice |-> {}]
    /\ now = 0
    /\ pc = "poll"
    /\ ev = EvInit
    /\ char_signed = TRUE
    /\ renderer = <<>> /\ stdout = <<>> /\ rcall = <<>>
    /\ palette_cache = <<>> /\ pcall = <<>>
    /\ caller = CallerInit
    /\ peer = second
    /\ query_mutex = "free"
    /\ stdin = <<>>
    /\ qhist = [parsed |-> <<>>, src |-> [da |-> 0, cell |-> 0, pos |-> 0],
                sent |-> 0, unsolicited |-> 0, acc |-> NoAccess]
    /\ life = <<>>

InitQuery == InitCallers(Absent)

\* pthread_cond_signal(&input->query_condition): a waiting caller is woken
cond_signal(cl) == IF cl.pc = "waiting" THEN [cl EXCEPT !.signalled = TRUE] ELSE cl

\* the threads blocked on query_condition, and the ones a signal may wake
\* (pthread_cond_signal unblocks one of the blocked threads, if there is any)
Waiters == {t \in Threads : Thread(t).pc = "waiting" /\ ~Thread(t).signalled}
Wakeable == IF Waiters = {} THEN {"none"} ELSE Waiters

\* the signal wakes the thread woken
Signal(woken) ==
    /\ caller' = IF woken = "caller" THEN cond_signal(caller) ELSE caller
    /\ peer' = IF woken = "peer" THEN cond_signal(peer) ELSE peer

\* the shared fields a reply of this kind is stored in
ReplyFields(kind) ==
    IF kind = "da" THEN {"device_attributes", "da_count"}
    ELSE IF kind = "cell" THEN {"cell_size", "has_cell_size"}
    ELSE {"cursor_pos", "has_cursor_pos"}

\* the number k the terminal gave the reply just parsed (0 for a cell size)
ReplyNumber(kind, parms) ==
    IF kind = "da" THEN parms[1] ELSE IF kind = "pos" THEN parms[0] - 50 ELSE 0

\* The input thread reads a reply and parses it up to the end of parse_char's
\* dispatch.  A cell-size or position reply is stored by its report function
\* under query_mutex, so the step waits for the mutex; a device-attributes
\* reply is stored by parse_char itself (input.c:596-604) and the thread
\* then goes on to device_attributes_report.
ReadReply ==
    /\ pc = "read"
    /\ stdin # <<>>
    /\ LET seq == Head(stdin)
           kind == ReplyKind(seq)
           c == RunSeq(getch_byte(Ctx, Head(seq)), Tail(seq))
       IN  /\ kind # "da" => query_mutex = "free"
           /\ input' = c.input
           /\ doom' = c.doom
           /\ ev' = [op |-> "seq", ch |-> seq, calls |-> c.calls, from |-> input.state,
                     since_esc |-> {}]
           /\ pc' = IF kind = "da" THEN "report" ELSE "poll"
           /\ stdin' = Tail(stdin)
           /\ \E woken \in (IF kind = "pos" THEN Wakeable ELSE {"none"}) : Signal(woken)
           /\ qhist' = [qhist EXCEPT
                  !.parsed = Append(@, [kind |-> kind, at |-> now,
                                        row |-> c.input.parms[0],
                                        k |-> ReplyNumber(kind, c.input.parms)]),
                  !.src[kind] = Len(qhist.parsed) + 1,
                  !.acc = [thread |-> "input", fields |-> ReplyFields(kind),
                           locked |-> kind # "da"]]
    /\ UNCHANGED <<now, char_signed, query_mutex, render_vars, palette_vars, life_vars>>

\* device_attributes_report: lock, signal, unlock
DeviceAttributesReport ==
    /\ pc = "report"
    /\ query_mutex = "free"
    /\ pc' = "poll"
    /\ \E woken \in Wakeable : Signal(woken)
    /\ qhist' = [qhist EXCEPT !.acc = NoAccess]
    /\ UNCHANGED <<input, doom, now, ev, char_signed, query_mutex, stdin,
                   render_vars, palette_vars, life_vars>>

\* the three query functions
QueryFns == {"da", "size", "cells"}

\* a query function of fns is entered by the thread self: pthread_mutex_lock
QueryLock(self, fns) ==
    /\ Thread(self).pc = "idle"
    /\ Thread(self).n < MaxQueries
    /\ query_mutex = "free"
    /\ \E fn \in fns :
           Becomes(self, [Thread(self) EXCEPT !.pc = "locked", !.fn = fn, !.n = @ + 1])
    /\ query_mutex' = self
    /\ qhist' = [qhist EXCEPT !.acc = NoAccess]
    /\ UNCHANGED <<thread_vars, stdin, render_vars, palette_vars, life_vars>>

\* the replies the terminal gives to the query of fn: a terminal need not
\* know the cell-size query, and may not answer the position query of
\* input_get_screen_cells in time
Replies(fn, k) ==
    IF fn = "da" THEN {<<DaReply(k)>>}
    ELSE IF fn = "size" THEN {<<CellReply, PosReply(k)>>, <<PosReply(k)>>}
    ELSE {<<PosReply(k)>>, <<>>}

\* printf of the query and fflush; then input_get_screen_size clears both
\* flags, input_get_screen_cells clears has_cursor_pos and computes its
\* deadline; input_get_device_attributes clears nothing
QueryIssue(self) ==
    LET cl == Thread(self)
    IN  /\ cl.pc = "locked"
        /\ \E replies \in Replies(cl.fn, qhist.sent + 1) :
               /\ stdin' = stdin \o replies
               /\ qhist' = [qhist EXCEPT
                      !.sent = IF replies = <<>> THEN @ ELSE @ + 1,
                      !.acc = [thread |-> self,
                               fields |-> IF cl.fn = "size"
                                          THEN {"has_cell_size", "has_cursor_pos"}
                                          ELSE IF cl.fn = "cells" THEN {"has_cursor_pos"}
                                          ELSE {},
                               locked |-> query_mutex = self]]
               /\ LET own == IF replies = <<>> THEN 0 ELSE qhist.sent + 1
                  IN  IF cl.fn = "cells"
                      THEN /\ Becomes(self, [cl EXCEPT
                                  !.pc = "waiting", !.signalled = FALSE,
                                  !.mark = Len(qhist.parsed), !.own = own,
                                  !.deadline = [clock_gettime(now) EXCEPT
                                                    !.tv_sec = @ + QUERY_TIMEOUT_SEC]])
                           /\ query_mutex' = "free"
                      ELSE /\ Becomes(self, [cl EXCEPT !.pc = "check", !.own = own,
                                                       !.mark = Len(qhist.parsed)])
                           /\ UNCHANGED query_mutex
        /\ input' = IF cl.fn = "size"
                    THEN [input EXCEPT !.has_cell_size = FALSE, !.has_cursor_pos = FALSE]
                    ELSE IF cl.fn = "cells"
                    THEN [input EXCEPT !.has_cursor_pos = FALSE]
                    ELSE input
        /\ UNCHANGED <<doom, now, pc, ev, char_signed, render_vars, palette_vars, life_vars>>

\* the test of the wait loop: while (input->da_count == 0), while
\* (!input->has_cursor_pos); pthread_cond_wait releases the mutex
QueryCheck(self) ==
    LET cl == Thread(self)
    IN  /\ cl.pc = "check"
        /\ LET wait == IF cl.fn = "da" THEN input.da_count = 0
                       ELSE ~input.has_cursor_pos
           IN  IF wait
               THEN /\ Becomes(self, [cl EXCEPT !.pc = "waiting", !.signalled = FALSE])
                    /\ query_mutex' = "free"
               ELSE /\ Becomes(self, [cl EXCEPT !.pc = "have"])
                    /\ UNCHANGED query_mutex
        /\ qhist' = [qhist EXCEPT
               !.acc = [thread |-> self,
                        fields |-> IF cl.fn = "da" THEN {"da_count"} ELSE {"has_cursor_pos"},
                        locked |-> query_mutex = self]]
        /\ UNCHANGED <<thread_vars, stdin, render_vars, palette_vars, life_vars>>

\* the deadline of the thread's pthread_cond_timedwait has passed
TimedOut(cl) == Expired(clock_gettime(now), cl.deadline)

\* The wait ends and the mutex is taken again: after a signal, after the
\* deadline of the timed wait when no signal came, or spuriously.  The
\* untimed waits go back to the test of their loop; the timed wait of
\* input_get_screen_cells is not in a loop.
QueryWake(self) ==
    LET cl == Thread(self)
    IN  /\ cl.pc = "waiting"
        /\ query_mutex = "free"
        /\ \E cause \in {"signal", "timeout", "spurious"} :
               /\ cause = "signal" => cl.signalled
               /\ cause = "timeout" => cl.fn = "cells" /\ ~cl.signalled /\ TimedOut(cl)
               /\ cause = "spurious" => ~cl.signalled
               /\ Becomes(self, [cl EXCEPT
                      !.pc = IF cl.fn = "cells" THEN "have" ELSE "check",
                      !.signalled = FALSE,
                      !.wait_result = IF cause = "timeout" THEN 1 ELSE 0])
        /\ query_mutex' = self
        /\ qhist' = [qhist EXCEPT !.acc = NoAccess]
        /\ UNCHANGED <<thread_vars, stdin, render_vars, palette_vars, life_vars>>

\* what the call of the thread cl returns, whether it is a fallback, and the
\* reply it is from
QueryResult(cl) ==
    IF cl.fn = "da"
    THEN [result |-> <<input.da_count, input.device_attributes>>, fallback |-> FALSE,
          src |-> qhist.src.da]
    ELSE IF cl.fn = "size"
    THEN LET cell == IF ~input.has_cell_size
                     THEN [first |-> FALLBACK_CELL_HEIGHT, second |-> FALLBACK_CELL_WIDTH]
                     ELSE input.cell_size
         IN  [result |-> <<input.cursor_pos.first * cell.first,
                           input.cursor_pos.second * cell.second>>,
              fallback |-> FALSE, src |-> qhist.src.pos]
    ELSE IF cl.wait_result = 0 /\ input.has_cursor_pos
    THEN [result |-> <<input.cursor_pos.first, input.cursor_pos.second>>,
          fallback |-> FALSE, src |-> qhist.src.pos]
    ELSE [result |-> <<FALLBACK_ROWS, FALLBACK_COLS>>, fallback |-> TRUE, src |-> 0]

\* the fields the call reads (and, for the cell-size fallback, writes) on
\* its way out
ResultFields(cl) ==
    IF cl.fn = "da" THEN {"da_count", "device_attributes"}
    ELSE IF cl.fn = "size" THEN {"has_cell_size", "cell_size", "cursor_pos"}
    ELSE {"has_cursor_pos", "cursor_pos"}

\* the result is read, the mutex is unlocked, the call returns
QueryReturn(self) ==
    LET cl == Thread(self)
    IN  /\ cl.pc = "have"
        /\ Becomes(self, [cl EXCEPT
               !.pc = "idle",
               !.last = [fn |-> cl.fn, result |-> QueryResult(cl).result,
                         src |-> QueryResult(cl).src, mark |-> cl.mark,
                         deadline |-> cl.deadline, fallback |-> QueryResult(cl).fallback,
                         own |-> cl.own]])
        /\ input' = IF cl.fn = "size" /\ ~input.has_cell_size
                    THEN [input EXCEPT !.cell_size = [first |-> FALLBACK_CELL_HEIGHT,
                                                      second |-> FALLBACK_CELL_WIDTH]]
                    ELSE input
        /\ query_mutex' = "free"
        /\ qhist' = [qhist EXCEPT
               !.src.cell = IF cl.fn = "size" /\ ~input.has_cell_size THEN 0 ELSE @,
               !.acc = [thread |-> self, fields |-> ResultFields(cl),
                        locked |-> query_mutex = self]]
        /\ UNCHANGED <<doom, now, pc, ev, char_signed, stdin, render_vars, palette_vars,
                       life_vars>>

\* the steps of the program's caller thread
CallerLock == QueryLock("caller", QueryFns)
CallerIssue == QueryIssue("caller")
CallerCheck == QueryCheck("caller")
CallerWake == QueryWake("caller")
CallerReturn == QueryReturn("caller")

\* the terminal sends a reply nobody asked for
Unsolicited ==
    /\ qhist.unsolicited < MaxUnsolicited
    /\ \E seq \in {DaReply(qhist.sent + 1), PosReply(qhist.sent + 1)} :
           stdin' = Append(stdin, seq)
    /\ qhist' = [qhist EXCEPT !.sent = @ + 1, !.unsolicited = @ + 1, !.acc = NoAccess]
    /\ UNCHANGED <<thread_vars, caller, peer, query_mutex, render_vars, palette_vars,
                   life_vars>>

TickQuery ==
    /\ now \div NSEC_PER_MSEC + QueryStepMs <= QueryHorizonMs
    /\ now' = now + QueryStepMs * NSEC_PER_MSEC
    /\ qhist' = [qhist EXCEPT !.acc = NoAccess]
    /\ UNCHANGED <<input, doom, pc, ev, char_signed, caller, peer, query_mutex, stdin,
                   render_vars, palette_vars, life_vars>>

NextQuery ==
    \/ Poll \/ ReadReply \/ DeviceAttributesReport
    \/ CallerLock \/ CallerIssue \/ CallerCheck \/ CallerWake \/ CallerReturn
    \/ Unsolicited \/ TickQuery

SpecQuery == InitQuery /\ [][NextQuery]_vars

\* a query call has returned
Returned(fn) == caller.last.fn = fn

\* C18: a query call that returns reply data returns data of a reply that
\* was parsed after the call issued its query (the received indicator having
\* been cleared at the issue), on the first call and on every later one,
\* for each of the three query functions.
C18_FreshReply ==
    (caller.last.fn # "none" /\ ~caller.last.fallback)
        => caller.last.src > caller.last.mark

\* the same for the two functions that clear their flags
FreshPosition ==
    ((Returned("size") \/ Returned("cells")) /\ ~caller.last.fallback)
        => caller.last.src > caller.last.mark

\* the position replies parsed after the last call issued its query and
\* before its deadline
InWindow ==
    {k \in (caller.last.mark + 1)..Len(qhist.parsed) :
        /\ qhist.parsed[k].kind = "pos"
        /\ ~Expired(clock_gettime(qhist.parsed[k].at), caller.last.deadline)}

\* C19: input_get_screen_cells returns the fallback 24 x 80 only if no
\* cursor-position reply was parsed within 2 seconds of the issue of its
\* query; if one was, the call returns the row and column of a position
\* reply parsed since the issue, whatever else signals the condition variable
\* or wakes the caller.
C19_FallbackOnlyAfterDeadline ==
    Returned("cells") =>
        /\ caller.last.fallback => InWindow = {}
        /\ InWindow # {} =>
               \E k \in (caller.last.mark + 1)..Len(qhist.parsed) :
                   /\ qhist.parsed[k].kind = "pos"
                   /\ caller.last.result = <<qhist.parsed[k].row, 132>>

\* C20: every read and every write of a shared query field (the
\* device-attribute list and its count, the cell size and its flag, the
\* cursor position and its flag), by the input thread or by a caller, is
\* made by a thread that holds query_mutex.
C20_FieldsUnderMutex == qhist.acc.fields # {} => qhist.acc.locked

(***************************************************************************)
(* SpecSerial: two threads call input_get_screen_size and                  *)
(* input_get_screen_cells concurrently while the input thread parses the   *)
(* replies; the clock stands still                                         *)
(***************************************************************************)
SerialFns == {"size", "cells"}

InitSerial == InitCallers(CallerInit)

\* calls the two threads make in a run, together
MaxSerial == 2

SerialLock ==
    /\ caller.n + peer.n < MaxSerial
    /\ \E self \in Threads : QueryLock(self, SerialFns)
SerialIssue == \E self \in Threads : QueryIssue(self)
SerialCheck == \E self \in Threads : QueryCheck(self)
SerialWake == \E self \in Threads : QueryWake(self)
SerialReturn == \E self \in Threads : QueryReturn(self)

NextSerial ==
    \/ Poll \/ ReadReply
    \/ SerialLock \/ SerialIssue \/ SerialCheck \/ SerialWake \/ SerialReturn

SpecSerial == InitSerial /\ [][NextSerial]_vars

\* the thread has written its query and the reply to it has not been parsed
Outstanding(self) ==
    LET cl == Thread(self)
    IN  /\ cl.pc \in {"check", "waiting"}
        /\ ~\E j \in (cl.mark + 1)..Len(qhist.parsed) :
               qhist.parsed[j].kind = "pos" /\ qhist.parsed[j].k = cl.own

\* the last call of the thread returned the position of the reply to its
\* own query
OwnReply(self) ==
    LET last == Thread(self).last
    IN  (last.fn # "none" /\ ~last.fallback)
            => last.src # 0 /\ qhist.parsed[last.src].k = last.own

\* C21: while one caller's query is outstanding (its escape sequence written,
\* its reply not yet parsed), no other caller thread writes a query or clears
\* the received flags, so two callers never have a query outstanding at the
\* same time; and each call that returns a reply returns the reply to its
\* own query.
C21_Serialized ==
    /\ ~(Outstanding("caller") /\ Outstanding("peer"))
    /\ \A self \in Threads : OwnReply(self)

(***************************************************************************)
(* Construction and teardown (input_create, input_destroy,                 *)
(* input_request_exit, input_is_running, renderer_create).  life records   *)
(* what exists: input is "none" before input_create, "live" after a        *)
(* successful one, "null" after a failed one and "freed" after             *)
(* input_destroy; heap is the set of allocated blocks, sync the set of     *)
(* initialised mutexes and condition variables; thread is "none",          *)
(* "running", "exited" (input_thread_func has returned) or "joined";       *)
(* destroy is the place input_destroy has reached; tty holds the bytes the *)
(* terminal has sent and nobody has read; in this part stdout is the list  *)
(* of the mode sequences written; drained tells whether the drain loop of  *)
(* input_destroy ran, discarded how many bytes it read, fail and rfail     *)
(* which step of the last input_create and renderer_create failed, and op  *)
(* who took the last step.                                                 *)
(***************************************************************************)
\* the steps of input_create that can fail, in the order of the code
CreateSteps ==
    <<"malloc", "query_mutex", "query_condition", "ready_condition", "release_mutex", "thread">>

\* the primitives initialised before the step
InitialisedBefore(step) ==
    LET i == CHOOSE j \in 1..Len(CreateSteps) : CreateSteps[j] = step
    IN  {CreateSteps[j] : j \in 2..(i - 1)}

\* a mutant of cleanup: the failure branch of pthread_create leaves
\* release_mutex as it is
cleanup_without_release_mutex(step) ==
    CASE step = "query_condition" -> {"query_mutex"}
      [] step = "ready_condition" -> {"query_condition", "query_mutex"}
      [] step = "release_mutex" -> {"ready_condition", "query_condition", "query_mutex"}
      [] step = "thread" -> {"ready_condition", "query_condition", "query_mutex"}
      [] OTHER -> {}

\* the primitives the failure branch of the step destroys (input.c:706-752)
cleanup(step) ==
    CASE step = "query_condition" -> {"query_mutex"}
      [] step = "ready_condition" -> {"query_condition", "query_mutex"}
      [] step = "release_mutex" -> {"ready_condition", "query_condition", "query_mutex"}
      [] step = "thread" -> {"release_mutex", "ready_condition", "query_condition",
                             "query_mutex"}
      [] OTHER -> {}

\* the writes of input_create before the thread is started: hide the cursor,
\* enable mouse tracking
CreateWrites == <<"hide_cursor", "mouse_on">>

\* input_create when the step fail fails ("none": no step fails): every
\* failure branch frees the block and returns NULL; on success the thread
\* runs and has set ready before input_create returns
input_create(l, fail) ==
    IF fail = "malloc" THEN [l EXCEPT !.input = "null", !.fail = fail, !.creates = @ + 1]
    ELSE IF fail # "none"
    THEN [l EXCEPT !.input = "null", !.fail = fail, !.creates = @ + 1,
                   !.sync = (@ \cup InitialisedBefore(fail)) \ cleanup(fail),
                   !.heap = (@ \cup {"input"}) \ {"input"}]
    ELSE [l EXCEPT !.input = "live", !.fail = fail, !.creates = @ + 1,
                   !.sync = @ \cup {"query_mutex", "query_condition", "ready_condition",
                                    "release_mutex"},
                   !.heap = @ \cup {"input"},
                   !.thread = "running"]

\* renderer_create: the renderer block, then the protocol buffer
renderer_create(l, fail) ==
    IF fail = "malloc" THEN [l EXCEPT !.renderer = "null", !.rfail = fail]
    ELSE IF fail = "protocol_buffer"
    THEN [l EXCEPT !.renderer = "null", !.rfail = fail,
                   !.heap = (@ \cup {"renderer"}) \ {"renderer"}]
    ELSE [l EXCEPT !.renderer = "live", !.rfail = fail,
                   !.heap = @ \cup {"renderer", "protocol_buffer"}]

\* input_is_running
input_is_running(l, inp) == l.input = "live" /\ ~inp.exit_requested

\* a mutant of Joinable: pthread_join returns while the thread runs
JoinableAlways(l) == TRUE

\* pthread_join returns once input_thread_func has returned
Joinable(l) == l.thread = "exited"

\* input_create calls, bytes unread, in a run; the bytes the terminal sends
\* (97 'a', 3 Ctrl-C); the clock step in ms and the horizon in ms
MaxCreates == 2
MaxTty == 2
LifeBytes == {97, 3}
LifeStepMs == 50
LifeHorizonMs == 100

LifeInit ==
    [input |-> "none", heap |-> {}, sync |-> {}, thread |-> "none", destroy |-> "idle",
     tty |-> <<>>, fail |-> "none", creates |-> 0, renderer |-> "none", rfail |-> "none",
     drained |-> FALSE, discarded |-> 0, op |-> "none"]

InitLife ==
    /\ input = InputInit
    /\ doom = [down |-> {}, twice |-> {}]
    /\ now = 0
    /\ pc = "poll"
    /\ ev = EvInit
    /\ char_signed = TRUE
    /\ renderer = <<>> /\ stdout = <<>> /\ rcall = <<>>
    /\ palette_cache = <<>> /\ pcall = <<>>
    /\ caller = <<>> /\ query_mutex = "free" /\ stdin = <<>> /\ qhist = <<>>
    /\ peer = <<>>
    /\ life = LifeInit

\* what a step of the main thread leaves alone
MainUnchanged ==
    UNCHANGED <<doom, now, pc, ev, char_signed, renderer, rcall, palette_vars, query_vars>>

InputCreate ==
    /\ life.input \in {"none", "null"}
    /\ life.creates < MaxCreates
    /\ \E fail \in {"none"} \cup {CreateSteps[j] : j \in 1..Len(CreateSteps)} :
           /\ life' = [input_create(life, fail) EXCEPT !.op = "input_create"]
           /\ stdout' = IF fail \in {"none", "thread"} THEN stdout \o CreateWrites
                        ELSE stdout
    /\ input' = InputInit
    /\ MainUnchanged

RendererCreate ==
    /\ life.renderer = "none"
    /\ \E fail \in {"none", "malloc", "protocol_buffer"} :
           /\ life' = [renderer_create(life, fail) EXCEPT !.op = "renderer_create"]
           /\ stdout' = IF fail = "none" THEN stdout \o <<"title", "clear">> ELSE stdout
    /\ UNCHANGED input
    /\ MainUnchanged

\* the input thread's loop, while the thread runs
LifePoll == life.thread = "running" /\ Poll

LifeTimeout == life.thread = "running" /\ GetchTimeout

\* the read returns the first unread byte
LifeGetch ==
    /\ life.thread = "running"
    /\ pc = "read"
    /\ life.tty # <<>>
    /\ Step(getch_byte(Ctx, Head(life.tty)), "getch", Head(life.tty), "poll")
    /\ life' = [life EXCEPT !.tty = Tail(@), !.op = "thread"]
    /\ UNCHANGED <<render_vars, palette_vars, query_vars>>

\* the loop condition fails: input_thread_func returns
ThreadExit ==
    /\ life.thread = "running"
    /\ pc = "poll"
    /\ input.exiting
    /\ life' = [life EXCEPT !.thread = "exited", !.op = "thread"]
    /\ UNCHANGED <<thread_vars, render_vars, palette_vars, query_vars>>

\* the terminal sends a byte
Arrive ==
    /\ life.input # "none"
    /\ Len(life.tty) < MaxTty
    /\ \E byte \in LifeBytes : life' = [life EXCEPT !.tty = Append(@, byte), !.op = "terminal"]
    /\ UNCHANGED <<thread_vars, render_vars, palette_vars, query_vars>>

RequestExit ==
    /\ life.input = "live"
    /\ life.destroy = "idle"
    /\ input' = input_request_exit(Ctx).input
    /\ life' = [life EXCEPT !.op = "input_request_exit"]
    /\ UNCHANGED stdout
    /\ MainUnchanged

\* input_destroy: the flag is set; then the 10 ms sleep and pthread_join
DestroyFlag ==
    /\ life.input = "live"
    /\ life.destroy = "idle"
    /\ input' = store_exiting(Ctx).input
    /\ life' = [life EXCEPT !.destroy = "join", !.op = "input_destroy"]
    /\ UNCHANGED stdout
    /\ MainUnchanged

DestroyJoin ==
    /\ life.destroy = "join"
    /\ Joinable(life)
    /\ life' = [life EXCEPT !.destroy = "drain", !.op = "input_destroy",
                            !.thread = IF @ = "exited" THEN "joined" ELSE @]
    /\ UNCHANGED <<input, stdout>>
    /\ MainUnchanged

\* the drain loop reads until nothing is left, if tcgetattr succeeds
DestroyDrain ==
    /\ life.destroy = "drain"
    /\ \E tcgetattr_ok \in BOOLEAN :
           life' = [life EXCEPT !.destroy = "restore", !.op = "input_destroy",
                                !.drained = tcgetattr_ok,
                                !.discarded = IF tcgetattr_ok THEN Len(life.tty) ELSE 0,
                                !.tty = IF tcgetattr_ok THEN <<>> ELSE @]
    /\ UNCHANGED <<input, stdout>>
    /\ MainUnchanged

\* mouse tracking off, cursor shown; then the primitives are destroyed and
\* the memory is freed
DestroyRestore ==
    /\ life.destroy = "restore"
    /\ stdout' = stdout \o <<"mouse_off", "show_cursor">>
    /\ life' = [life EXCEPT !.destroy = "done", !.op = "input_destroy",
                            !.sync = {}, !.heap = @ \ {"input"}, !.input = "freed"]
    /\ UNCHANGED input
    /\ MainUnchanged

TickLife ==
    /\ life.thread = "running"
    /\ Tick(LifeStepMs * NSEC_PER_MSEC, LifeHorizonMs)

NextLife ==
    \/ InputCreate \/ RendererCreate
    \/ LifePoll \/ LifeTimeout \/ LifeGetch \/ ThreadExit \/ TickLife
    \/ Arrive \/ RequestExit
    \/ DestroyFlag \/ DestroyJoin \/ DestroyDrain \/ DestroyRestore

\* the input thread keeps running: each read returns within its timeout
SpecLife ==
    /\ InitLife /\ [][NextLife]_vars
    /\ WF_vars(LifePoll) /\ WF_vars(LifeTimeout) /\ WF_vars(ThreadExit)

\* the input thread does not start another iteration of its loop
NoNewIteration == pc' = pc /\ input' = input /\ doom' = doom /\ ev' = ev

\* the step writes the sequences that restore the terminal modes, in order
RestoreWritten == stdout' = stdout \o <<"mouse_off", "show_cursor">>

\* the step writes one of the sequences that restore the terminal modes
RestoreTouched ==
    \E i \in (Len(stdout) + 1)..Len(stdout') : stdout'[i] \in {"mouse_off", "show_cursor"}

(***************************************************************************)
(* C22: once exiting is set, the input thread starts no further iteration  *)
(* at its next check of the flag and terminates (the thread running on,    *)
(* each read returning within its timeout); input_destroy sets the flag,   *)
(* its join returns only after the thread has terminated, the drain comes  *)
(* after the join and empties the terminal input (where the terminal       *)
(* attributes can be read), the mouse-tracking-disable and show-cursor     *)
(* sequences are written only after the drain, and nothing is parsed after *)
(* the join.                                                               *)
(***************************************************************************)
C22_Teardown ==
    /\ [][ /\ (life.thread = "running" /\ input.exiting /\ pc = "poll") => NoNewIteration
           /\ (life.destroy = "idle" /\ life'.destroy # "idle")
                  => life'.destroy = "join" /\ input'.exiting
           /\ (life.destroy = "join" /\ life'.destroy # "join")
                  => /\ life'.destroy = "drain"
                     /\ life.thread = "exited" /\ life'.thread = "joined"
                     /\ stdout' = stdout
           /\ (life.destroy = "drain" /\ life'.destroy # "drain")
                  => /\ life'.destroy = "restore"
                     /\ life'.drained => life'.tty = <<>>
                     /\ stdout' = stdout
           /\ RestoreTouched
                  => /\ life.destroy = "restore" /\ life.thread = "joined"
                     /\ RestoreWritten
           /\ life.thread = "joined" => NoNewIteration
         ]_vars
    /\ (input.exiting /\ life.thread = "running") ~> (life.thread = "exited")

\* C22's case: input_destroy has joined the thread, drained two bytes that
\* arrived after the flag was set, and written the restoring sequences
C22_Witness ==
    /\ life.destroy = "done" /\ life.thread = "joined"
    /\ life.drained /\ life.discarded = 2
    /\ SubSeq(stdout, Len(stdout) - 1, Len(stdout)) = <<"mouse_off", "show_cursor">>

\* a step of the thread that reads the byte
ReadsByte(byte) == pc = "read" /\ pc' = "poll" /\ ev'.op = "getch" /\ ev'.ch = byte

(***************************************************************************)
(* C24: a 0x03 byte read in GROUND sets exit_requested and changes nothing *)
(* else (no call to the engine, the parser state and the exiting flag as   *)
(* they were); input_is_running is false from then on; exiting is set only *)
(* by input_request_exit and input_destroy, and the input thread ends and  *)
(* stops polling only once exiting is set.                                 *)
(***************************************************************************)
C24_CtrlC ==
    /\ [][ /\ (ReadsByte(3) /\ input.state = STATE_GROUND)
                  => /\ input' = [input EXCEPT !.exit_requested = TRUE]
                     /\ ev'.calls = <<>> /\ doom' = doom
                     /\ ~input_is_running(life', input')
           /\ (life.input = "live" /\ ~input_is_running(life, input))
                  => ~input_is_running(life', input')
           /\ (~input.exiting /\ input'.exiting)
                  => life'.op \in {"input_request_exit", "input_destroy"}
           /\ (life.thread = "running" /\ life'.thread # "running") => input.exiting
         ]_vars
    /\ [](life.thread = "running" /\ pc = "poll" /\ ~input.exiting => ENABLED LifePoll)

\* C24's case: after Ctrl-C, with exiting clear, the thread has released the
\* key 'a'
C24_Witness ==
    /\ input.exit_requested /\ ~input.exiting
    /\ ev.op = "poll" /\ ev.calls = << <<"up", 97>> >>

(***************************************************************************)
(* C28: when a step of input_create fails (the allocation, a mutex, a      *)
(* condition variable, the thread creation), the call returns NULL with    *)
(* every primitive it had initialised destroyed, its block freed and no    *)
(* input thread running; when an allocation of renderer_create fails, the  *)
(* call returns NULL with no block left allocated.                         *)
(***************************************************************************)
C28_NoPartialObject ==
    /\ (life.fail # "none" /\ life.op = "input_create")
           => /\ life.input = "null"
              /\ life.sync = {}
              /\ "input" \notin life.heap
              /\ life.thread = "none"
    /\ life.input = "null" => life.sync = {} /\ "input" \notin life.heap
    /\ life.rfail # "none"
           => life.renderer = "null" /\ life.heap \cap {"renderer", "protocol_buffer"} = {}

\* C28's case: pthread_create has failed, and so has the allocation of the
\* protocol buffer
C28_Witness ==
    /\ life.input = "null" /\ life.fail = "thread"
    /\ life.renderer = "null" /\ life.rfail = "protocol_buffer"

\* a step that reads a byte in state ESC
EscByteStep == pc = "read" /\ ev'.op = "getch" /\ input.state = STATE_ESC

\* the key-down a dispatch through the hold rule sends for key
DownUnlessHeld(key) ==
    IF key \in input.held_keys_bitmap THEN <<>> ELSE << <<"down", key>> >>

\* after the step key has a release HOLD_MS from now
FreshRelease(key) ==
    /\ HasPending(input', key)
    /\ input'.pending_releases[FindPending(input', key)].release_time
           = ReleaseTime(now, HOLD_MS)

\* the keys with an entry in the list
PendingKeys(inp) == {inp.pending_releases[i].key : i \in 1..pending_count(inp)}

\* the step dispatched the standalone ESC first and then treated the byte:
\* a new ESC, a printable byte, or another byte
StandaloneEscThen(ch) ==
    /\ FreshRelease(DOOM_KEY_ESCAPE)
    /\ IF ch = 27
       THEN /\ input'.state = STATE_ESC
            /\ ev'.calls = DownUnlessHeld(DOOM_KEY_ESCAPE)
       ELSE /\ input'.state = STATE_GROUND
            /\ IF ch >= 32 /\ ch <= 126
               THEN /\ ev'.calls = DownUnlessHeld(DOOM_KEY_ESCAPE)
                                       \o DownUnlessHeld(AsciiDoomKey(ch))
                    /\ FreshRelease(AsciiDoomKey(ch))
               ELSE /\ ev'.calls = DownUnlessHeld(DOOM_KEY_ESCAPE)
                    /\ PendingKeys(input') \subseteq PendingKeys(input) \cup {DOOM_KEY_ESCAPE}

(***************************************************************************)
(* C29, as stated: when a byte other than 'O' or '[' arrives in state ESC, *)
(* exactly one literal ESC key is dispatched through the hold rule first;  *)
(* if the byte is ESC the parser stays in ESC, otherwise it goes to GROUND *)
(* and a printable byte (32..126) is dispatched as a literal key in the    *)
(* same step, while a non-printable byte is dropped without dispatch.      *)
(***************************************************************************)
C29_EscThenAnyByte ==
    [][ (EscByteStep /\ ev'.ch \notin {79, 91}) => StandaloneEscThen(ev'.ch) ]_vars

(***************************************************************************)
(* C29: as above for a byte other than 'O', '[' and 0x03; a 0x03 arriving  *)
(* in ESC dispatches nothing, sets exit_requested and leaves the parser in *)
(* ESC.                                                                    *)
(***************************************************************************)
C29_EscThenByte ==
    [][ /\ (EscByteStep /\ ev'.ch \notin {79, 91, 3}) => StandaloneEscThen(ev'.ch)
        /\ (EscByteStep /\ ev'.ch = 3)
               => /\ ev'.calls = <<>>
                  /\ input' = [input EXCEPT !.exit_requested = TRUE, !.esc_waiting = FALSE]
      ]_vars

\* C29's case: 'x' has arrived in ESC, and the ESC key and then 'x' were
\* dispatched in the one step
C29_Witness ==
    /\ ev.op = "getch" /\ ev.from = STATE_ESC /\ ev.ch = 120
    /\ ev.calls = << <<"down", DOOM_KEY_ESCAPE>>, <<"down", 120>> >>
    /\ input.state = STATE_GROUND
    /\ FindPending(input, DOOM_KEY_ESCAPE) < FindPending(input, 120)

\* key has an entry with the deadline of the entry of other
SameDeadline(inp, key, other) ==
    /\ HasPending(inp, key) /\ HasPending(inp, other)
    /\ inp.pending_releases[FindPending(inp, key)].release_time
           = inp.pending_releases[FindPending(inp, other)].release_time

PairedOnKeyDown ==
    [][ (SeqStep(SeqShiftUp) /\ <<"down", DOOM_KEY_UP_ARROW>> \in {ev'.calls[j] : j \in 1..Len(ev'.calls)})
            => /\ <<"down", DOOM_KEY_SHIFT>> \in {ev'.calls[j] : j \in 1..Len(ev'.calls)}
               /\ SameDeadline(input', DOOM_KEY_SHIFT, DOOM_KEY_UP_ARROW) ]_vars

(***************************************************************************)
(* SpecPolling: the Up arrow (held 80 ms), the ESC key and the literal 'A'  *)
(* (held 50 ms) byte by byte, so that the thread reads in every parser     *)
(* state, the clock advancing in steps of 27 ms, the thread running on     *)
(***************************************************************************)
\* ESC, '[', 'A'
PollingBytes == {27, 91, 65}

\* bytes arrive during the first PollingHorizonMs milliseconds
PollingHorizonMs == 28

InitPolling == InitWith({0}, {TRUE})

\* the terminal is silent after the horizon
Silent == now > PollingHorizonMs * NSEC_PER_MSEC

GetchPollingByte == ~Silent /\ \E byte \in PollingBytes : Getch(byte)

TickPolling == Tick(CsiStepA, PollingHorizonMs + ARROW_HOLD_MS)

NextPolling == Poll \/ GetchTimeout \/ GetchPollingByte \/ TickPolling

\* each read returns within its 1 ms timeout
SpecPolling ==
    /\ InitPolling /\ [][NextPolling]_vars
    /\ WF_vars(Poll) /\ WF_vars(GetchTimeout)

\* the places of the list whose deadline has passed
DuePlaces == {i \in 1..pending_count(input) :
                  now >= TimeNs(input.pending_releases[i].release_time)}

\* key has an entry whose deadline has passed
DueKey(key) == \E i \in DuePlaces : input.pending_releases[i].key = key

\* the n-th of the places in the set places
NthPlace(places, n) == CHOOSE k \in places : Cardinality({j \in places : j < k}) = n - 1

\* the thread passes the head of its loop
PollStep == pc = "poll" /\ pc' = "read"

PollingKeys == {DOOM_KEY_ESCAPE, DOOM_KEY_UP_ARROW, AsciiDoomKey(65)}

(***************************************************************************)
(* C23: while exiting is clear, each pass of the input thread's loop       *)
(* begins by processing the pending releases: for every entry whose        *)
(* deadline has passed one key-up is sent, the held bit is cleared and the *)
(* entry is removed, and the other entries stay in the list in their       *)
(* order, their keys held; the read that follows can return without a byte *)
(* in every parser state and leads back to the head of the loop, so that   *)
(* an entry whose deadline has passed is always processed, whether or not  *)
(* a byte arrives.                                                         *)
(***************************************************************************)
C23_ReleasePolling ==
    /\ [][ PollStep =>
             LET list == input.pending_releases
                 keep == (1..Len(list)) \ DuePlaces
             IN  /\ Len(ev'.calls) = Cardinality(DuePlaces)
                 /\ \A i \in DuePlaces :
                        /\ \E j \in 1..Len(ev'.calls) : ev'.calls[j] = <<"up", list[i].key>>
                        /\ list[i].key \notin input'.held_keys_bitmap
                        /\ list[i].key \notin doom'.down
                 /\ input'.pending_releases =
                        [n \in 1..Cardinality(keep) |-> list[NthPlace(keep, n)]]
                 /\ \A i \in keep : list[i].key \in input'.held_keys_bitmap
                                        <=> list[i].key \in input.held_keys_bitmap
         ]_vars
    /\ [][ pc = "read" /\ pc' # "read" => pc' = "poll" ]_vars
    /\ [](pc = "poll" /\ ~input.exiting => ENABLED Poll)
    /\ [](pc = "read" => ENABLED GetchTimeout)
    /\ \A key \in PollingKeys : DueKey(key) ~> ~DueKey(key)

\* C23's case: a pass of the loop in state CSI has released two keys whose
\* deadlines had passed and kept the entry that was not due
C23_Witness ==
    /\ ev.op = "poll" /\ Len(ev.calls) = 2
    /\ input.state = STATE_CSI
    /\ pending_count(input) = 1

(***************************************************************************)
(* SpecSources: every kind of input that reaches a key handler (CSI keys   *)
(* with and without a modifier, an SS3 key, mouse press and release        *)
(* reports, a literal key, ESC), the clock advancing in steps of 27.5 ms   *)
(***************************************************************************)
\* ESC O P: F1
SeqF1 == <<27, 79, 80>>

\* left button pressed and released at column 1, row 1
SeqPress == MouseSeq(0, 1, 1, 77)
SeqRelease == MouseSeq(0, 1, 1, 109)

SourceCsiSeqs == {SeqUp, SeqShiftUp}
SourceSeqs == SourceCsiSeqs \cup {SeqF1, SeqPress, SeqRelease}

\* 'a', ESC
SourceBytes == {97, 27}

SourcesHorizonMs == 56

\* the terminal sends nothing more while this many releases are pending
MaxHeld == 3

InitSources == InitWith({0}, {TRUE})

GetchSource == pending_count(input) < MaxHeld /\ \E seq \in SourceSeqs : GetchSeq(seq)

GetchSourceByte == pending_count(input) < MaxHeld /\ \E byte \in SourceBytes : Getch(byte)

TickSources == Tick(CsiStepB, SourcesHorizonMs)

NextSources == Poll \/ GetchTimeout \/ GetchSource \/ GetchSourceByte \/ TickSources

SpecSources == InitSources /\ [][NextSources]_vars

\* the keys of the key-up calls among calls
UpKeys(calls) == {calls[j][2] : j \in {i \in 1..Len(calls) : calls[i][1] = "up"}}

\* the keys the step sends key-up for or clears the held bit of
Released ==
    IF pc' = pc THEN {}
    ELSE UpKeys(ev'.calls) \cup (input.held_keys_bitmap \ input'.held_keys_bitmap)

\* the step runs process_pending_releases (at the head of the loop, or
\* between the bytes of a sequence) while key's deadline has passed
ReleasedWhenDue(key) == ev'.op \in {"poll", "seq"} /\ DueKey(key)

\* the step is a CSI event of key, held with more than 25 ms left
ReleasedAsDistinct(key) ==
    /\ ev'.op = "seq" /\ ev'.ch \in SourceCsiSeqs /\ key = SeqKey(ev'.ch)
    /\ HasPending(input, key)
    /\ Remaining(key) > DISTINCT_MS * NSEC_PER_MSEC

(***************************************************************************)
(* C26: whatever is read, a key-up is sent and a held bit is cleared only  *)
(* by process_pending_releases for an entry whose deadline has passed, or  *)
(* by a CSI key event for its own key when the key's release is more than  *)
(* 25 ms away; literal keys, SS3 keys, mouse reports and ESC handling      *)
(* release nothing.                                                        *)
(***************************************************************************)
C26_KeyUpSources ==
    [][ \A key \in Released : ReleasedWhenDue(key) \/ ReleasedAsDistinct(key) ]_vars

\* C26's case: a mouse release report has been read while the button's key
\* and the key of an SS3 sequence were held, and nothing was released
C26_Witness ==
    /\ ev.op = "seq" /\ ev.ch = SeqRelease /\ ev.calls = <<>>
    /\ ~input.mouse.buttons[0]
    /\ MouseDoomKey(0) \in input.held_keys_bitmap
    /\ DOOM_KEY_F1 \in input.held_keys_bitmap

(***************************************************************************)
(* SpecDiscard: whole sequences, those the parser handles and those it     *)
(* does not, read while keys are held and replies are stored (the clock    *)
(* standing still, so that no release is due)                              *)
(***************************************************************************)
\* one sequence for each case: ESC [ 2 ~, ESC [ 8 ; 1 ; 1 t, ESC [ 4 ; 1 t,
\* ESC [ 5 R, ESC [ 0 ; 1 ; 1 M, ESC [ 0 ; 1 ; 1 m, ESC [ 1 ; 1 c,
\* ESC [ > 1 ; 1 c, ESC [ 1 ; 2 Z
UnhandledCsi ==
    {<<27, 91, 50, 126>>,
     <<27, 91, 56, 59, 49, 59, 49, 116>>,
     <<27, 91, 52, 59, 49, 116>>,
     <<27, 91, 53, 82>>,
     <<27, 91, 48, 59, 49, 59, 49, 77>>,
     <<27, 91, 48, 59, 49, 59, 49, 109>>,
     <<27, 91, 49, 59, 49, 99>>,
     <<27, 91, 62, 49, 59, 49, 99>>,
     <<27, 91, 49, 59, 50, 90>>}

\* ESC O A, ESC O x
UnhandledSs3 == {<<27, 79, 65>>, <<27, 79, 120>>}

\* ESC O ESC, ESC O 0x03
Ss3Control == {<<27, 79, 27>>, <<27, 79, 3>>}

\* ESC [ 1 ? c, ESC [ 0 ; 1 ; 1 < M: the prefix byte after the parameters
SeqLateQuestion == <<27, 91, 49, 63, 99>>
SeqLateLess == <<27, 91, 48, 59, 49, 59, 49, 60, 77>>

\* sequences the parser handles
HandledSeqs == {SeqPress, DaReply(1), PosReply(1)}

DiscardSeqs ==
    UnhandledCsi \cup UnhandledSs3 \cup Ss3Control
        \cup {SeqLateQuestion, SeqLateLess} \cup HandledSeqs

InitDiscard == InitWith({0}, {TRUE})

GetchDiscard == \E seq \in DiscardSeqs : GetchSeq(seq)

NextDiscard == Poll \/ GetchTimeout \/ GetchDiscard \/ GetchLiteral

SpecDiscard == InitDiscard /\ [][NextDiscard]_vars

\* what the callers of the query functions read
DeviceQueryState(inp) ==
    [device_attributes |-> inp.device_attributes, da_count |-> inp.da_count,
     has_cell_size |-> inp.has_cell_size, cell_size |-> inp.cell_size,
     has_cursor_pos |-> inp.has_cursor_pos, cursor_pos |-> inp.cursor_pos]

\* the step calls nothing and changes nothing but the parser's own fields
\* (the state and the parameters it collects)
NoEffect ==
    /\ ev'.calls = <<>>
    /\ doom' = doom
    /\ input' = [input EXCEPT !.state = input'.state,
                              !.parm = input'.parm,
                              !.parms = input'.parms,
                              !.parm_count = input'.parm_count,
                              !.parm_prefix = input'.parm_prefix]

\* the step reads seq, has no effect and leaves the parser in GROUND
Discarded(seq) == SeqStep(seq) => NoEffect /\ input'.state = STATE_GROUND

(***************************************************************************)
(* C27, as stated: a completed CSI sequence that matches no handled case   *)
(* and an SS3 byte other than P, Q, R and S cause no call and no change to *)
(* the pending releases, the held bitmap, the mouse state or the           *)
(* DeviceQueryState; only the parser state changes, to GROUND.             *)
(***************************************************************************)
C27_DiscardAnySs3Byte ==
    [][ \A seq \in UnhandledCsi \cup UnhandledSs3 \cup Ss3Control : Discarded(seq) ]_vars

(***************************************************************************)
(* C27: a completed CSI sequence that matches no handled case and an SS3   *)
(* byte other than P, Q, R, S, ESC and 0x03 cause no call and no change to *)
(* the pending releases, the held bitmap, the mouse state or the           *)
(* DeviceQueryState; only the parser state changes, to GROUND.  In SS3 an  *)
(* ESC takes the parser to ESC and a 0x03 sets exit_requested and leaves   *)
(* the parser in SS3.                                                      *)
(***************************************************************************)
C27_Discard ==
    [][ /\ \A seq \in UnhandledCsi \cup UnhandledSs3 : Discarded(seq)
        /\ SeqStep(<<27, 79, 27>>) => NoEffect /\ input'.state = STATE_ESC
        /\ SeqStep(<<27, 79, 3>>)
               => /\ ev'.calls = <<>> /\ doom' = doom
                  /\ input' = [input EXCEPT !.state = STATE_SS3, !.exit_requested = TRUE]
      ]_vars

\* C27's case: ESC [ 5 R has been read and discarded while keys were held,
\* the mouse was tracked and replies were stored
C27_Witness ==
    /\ ev.op = "seq" /\ ev.ch = <<27, 91, 53, 82>> /\ ev.calls = <<>>
    /\ input.state = STATE_GROUND
    /\ pending_count(input) >= 2
    /\ input.mouse.tracking
    /\ input.da_count > 0 /\ input.has_cursor_pos

(***************************************************************************)
(* C30: a '?' or '<' byte arriving after a digit or ';' of a CSI sequence  *)
(* does not set the prefix: ESC [ 1 ? c stores no device attributes, and   *)
(* ESC [ 0 ; 1 ; 1 < M is no mouse report.                                 *)
(***************************************************************************)
C30_PrefixPosition ==
    [][ /\ SeqStep(SeqLateQuestion)
               => /\ input'.parm_prefix # 63
                  /\ DeviceQueryState(input') = DeviceQueryState(input)
        /\ SeqStep(SeqLateLess)
               => /\ input'.parm_prefix # 60
                  /\ input'.mouse = input.mouse
                  /\ ev'.calls = <<>>
      ]_vars

(***************************************************************************)
(* SpecButtons: press and release reports of the three mouse buttons, a    *)
(* motion report at one position, the clock advancing in steps of 50 ms    *)
(***************************************************************************)
\* button codes: 0 left, 1 middle, 2 right, 35 motion with no button
ButtonCodes == {0, 1, 2, 35}
ButtonCols == {1}

ButtonsHorizonMs == 100

InitButtons == InitWith({0}, {TRUE})

GetchButton ==
    \E cb \in ButtonCodes, cx \in ButtonCols, final_char \in MouseFinals :
        GetchSeq(MouseSeq(cb, cx, 1, final_char))

TickButtons == Tick(MouseTick, ButtonsHorizonMs)

NextButtons == Poll \/ GetchTimeout \/ GetchButton \/ TickButtons

SpecButtons == InitButtons /\ [][NextButtons]_vars

\* left = fire (Ctrl), middle = run (Shift), right = use (Space)
ButtonKey(button) ==
    CASE button = 0 -> DOOM_KEY_CTRL
      [] button = 1 -> DOOM_KEY_SHIFT
      [] button = 2 -> 32

\* the entries of the list whose deadline has not passed
NotDue(inp) ==
    SelectSeq(inp.pending_releases, LAMBDA pr : now < TimeNs(pr.release_time))

\* a press report of button with its flag clear: key-down, a release 50 ms
\* from now, the flag set
PressOutcome(button) ==
    /\ CallsOf(ev'.calls, {"down"}) = << <<"down", ButtonKey(button)>> >>
    /\ HasPending(input', ButtonKey(button))
    /\ input'.pending_releases[FindPending(input', ButtonKey(button))].release_time
           = ReleaseTime(now, HOLD_MS)
    /\ input'.mouse.buttons = [input.mouse.buttons EXCEPT ![button] = TRUE]

\* a press report of button with its flag set: nothing sent, nothing scheduled
RepeatedPressOutcome(button) ==
    /\ CallsOf(ev'.calls, {"down"}) = <<>>
    /\ input'.pending_releases = NotDue(input)
    /\ input'.mouse.buttons = input.mouse.buttons

\* a release report of button: no key-up but for the entries that are due,
\* the flag cleared, the key's release left to the timer
ReleaseOutcome(button) ==
    /\ CallsOf(ev'.calls, {"down"}) = <<>>
    /\ \A key \in UpKeys(ev'.calls) : DueKey(key)
    /\ input'.pending_releases = NotDue(input)
    /\ input'.mouse.buttons = [input.mouse.buttons EXCEPT ![button] = FALSE]

\* what the claim says of the report (button, cx, final_char)
ButtonOutcome(button, final_char) ==
    IF final_char = 109 THEN ReleaseOutcome(button)
    ELSE IF input.mouse.buttons[button] THEN RepeatedPressOutcome(button)
    ELSE PressOutcome(button)

CellParsed(from, to) ==
    \E j \in (from + 1)..(to - 1) : j <= Len(qhist.parsed) /\ qhist.parsed[j].kind = "cell"

\* rows x cell height, columns x cell width of the position reply numbered
\* src and the cell size cell
SizeOf(src, cell_height, cell_width) ==
    <<qhist.parsed[src].row * cell_height, 132 * cell_width>>

\* the last call of the thread was input_get_screen_size and returned what
\* the claim says
ScreenSize(self) ==
    LET last == Thread(self).last
    IN  last.fn = "size" =>
            /\ last.src > last.mark
            /\ CellParsed(last.mark, last.src) => last.result = SizeOf(last.src, 16, 8)
            /\ ~CellParsed(last.mark, Len(qhist.parsed) + 1) =>
                   last.result = SizeOf(last.src, FALLBACK_CELL_HEIGHT, FALLBACK_CELL_WIDTH)

(***************************************************************************)
(* C32: input_get_screen_size returns after a cursor-position reply       *)
(* parsed after its query was issued, and returns (rows x cell height,     *)
(* columns x cell width): with the cell size of a cell-size reply parsed   *)
(* since the issue, if one was parsed before the position reply, and with  *)
(* the fallback 20 x 10 if none was parsed.                                *)
(***************************************************************************)
C32_ScreenSizeResult == \A self \in Threads : ScreenSize(self)

(***************************************************************************)
(* SpecWorst: frames of the program's fixed size rendered into the         *)
(* program's protocol buffer, for image ids over the range of rand(),      *)
(* screen sizes over the range of int and frame counters over the range of *)
(* int                                                                     *)
(***************************************************************************)
\* rand() returns a value in 0 .. RAND_MAX (2^31 - 1 with glibc)
WorstIds == {0, 7, INT_MAX}

\* screen_rows and screen_cols are the caller's ints
WorstScreens == {INT_MIN, 24, INT_MAX}

\* frame counters a run starts from
WorstFrames == {0, 1, INT_MAX - 1, INT_MAX}

\* what r->frame_number++ may leave when the counter is INT_MAX
OverflowOutcomes == {INT_MIN, -1, 0, INT_MAX}

InitWorst ==
    /\ input = InputInit
    /\ doom = [down |-> {}, twice |-> {}]
    /\ now = 0
    /\ pc = "poll"
    /\ ev = EvInit
    /\ char_signed = TRUE
    /\ \E id \in WorstIds, rows \in WorstScreens, cols \in WorstScreens,
          frame \in WorstFrames :
           renderer = [screen_rows |-> rows, screen_cols |-> cols, kitty_id |-> id,
                       frame_number |-> frame,
                       protocol_buffer_size |-> PROTOCOL_BUFFER_SIZE]
    /\ stdout = <<>>
    /\ rcall = [n |-> 0, frame |-> 0, encoded_size |-> 0, writes |-> <<>>,
                st |-> FormatInit]
    /\ palette_cache = <<>> /\ pcall = <<>>
    /\ caller = <<>> /\ query_mutex = "free" /\ stdin = <<>> /\ qhist = <<>>
    /\ peer = <<>> /\ life = <<>>

\* renderer_render_frame for one frame of WIDTH x HEIGHT pixels; stdout
\* keeps the last frame only
RenderWorst ==
    /\ rcall.n < MaxCalls
    /\ \E res \in {renderer_render_frame(renderer, EncodedCapacity)} :
           /\ \E next_frame \in (IF ~res.st.error /\ renderer.frame_number = INT_MAX
                                 THEN OverflowOutcomes ELSE {res.frame_number}) :
                  renderer' = [renderer EXCEPT !.frame_number = next_frame]
           /\ stdout' = [w \in 1..Len(res.writes) |->
                            [frame |-> renderer.frame_number, pieces |-> res.writes[w]]]
           /\ rcall' = [n |-> rcall.n + 1, frame |-> renderer.frame_number,
                        encoded_size |-> EncodedCapacity, writes |-> res.writes,
                        st |-> res.st]
    /\ UNCHANGED <<thread_vars, palette_vars, query_vars, life_vars>>

NextWorst == RenderWorst

SpecWorst == InitWorst /\ [][NextWorst]_vars

\* the payload pieces among the pieces
Payloads(pieces) == SelectSeq(pieces, LAMBDA piece : piece.kind = "payload")

(***************************************************************************)
(* C33: a frame of 320 x 200 RGB24 pixels (192000 bytes, 256000 base64     *)
(* characters, 63 chunks) is formatted into at most 286720 bytes, the      *)
(* size of the protocol buffer, and is never dropped by a capacity check,  *)
(* for every image id in 0 .. RAND_MAX, every frame counter and every int  *)
(* value of the screen rows and columns.                                   *)
(***************************************************************************)
C33_WorstCaseFits ==
    rcall.n > 0 =>
        /\ WIDTH * HEIGHT * 3 = 192000
        /\ rcall.encoded_size = 256000
        /\ ~rcall.st.error
        /\ rcall.st.buf_offset <= 286720
        /\ rcall.st.buf_offset <= renderer.protocol_buffer_size
        /\ Len(Payloads(rcall.st.pieces)) = 63
        /\ Len(rcall.writes) >= 1
        /\ rcall.writes[Len(rcall.writes)] = rcall.st.pieces

\* C33's case: the first frame of an image with the longest id on a screen
\* whose rows and columns print with the most characters has been written,
\* 73 bytes of create header, 62 continuation headers of 7 bytes, 256000
\* bytes of data, 63 trailers and the newline
C33_Witness ==
    /\ rcall.n > 0 /\ rcall.frame = 0
    /\ renderer.kitty_id = INT_MAX
    /\ renderer.screen_rows = INT_MIN /\ renderer.screen_cols = INT_MIN
    /\ rcall.st.buf_offset = 73 + 62 * 7 + 256000 + 63 * 2 + 2
    /\ ~rcall.st.error

(***************************************************************************)
(* SpecStartup: input_create from pthread_create on, and the start of      *)
(* input_thread_func, interleaved step by step.  caller is the creating    *)
(* thread: pc is the place it has reached, signalled says that a signal on *)
(* ready_condition has reached it while it waits, waits counts its calls   *)
(* of pthread_cond_wait and spurious its spurious wakeups.  life holds     *)
(* the ready flag and what input_create has returned.  pc is "unborn"      *)
(* before the thread exists, "born", "locked" and "ready" on its way to    *)
(* the loop.                                                               *)
(***************************************************************************)
\* spurious wakeups of the creating thread in a run
MaxSpurious == 2

StartupBytes == {27, 65}

CreatorInit == [pc |-> "create", signalled |-> FALSE, waits |-> 0, spurious |-> 0]

InitStartup ==
    /\ input = InputInit
    /\ doom = [down |-> {}, twice |-> {}]
    /\ now = 0
    /\ pc = "unborn"
    /\ ev = EvInit
    /\ char_signed = TRUE
    /\ renderer = <<>> /\ stdout = <<>> /\ rcall = <<>>
    /\ palette_cache = <<>> /\ pcall = <<>>
    /\ caller = CreatorInit
    /\ query_mutex = "free" /\ stdin = <<>> /\ qhist = <<>>
    /\ peer = <<>>
    /\ life = [ready |-> FALSE, result |-> "none", fail |-> "none"]

StartupUnchanged ==
    UNCHANGED <<input, doom, now, ev, char_signed, render_vars, palette_vars, stdin,
                qhist, peer>>

\* input_create up to pthread_create: a step fails and NULL is returned, or
\* the thread is started
CreateThread ==
    /\ caller.pc = "create"
    /\ \E fail \in {"none"} \cup {CreateSteps[j] : j \in 1..Len(CreateSteps)} :
           IF fail = "none"
           THEN /\ caller' = [caller EXCEPT !.pc = "lock"]
                /\ pc' = "born"
                /\ UNCHANGED life
           ELSE /\ caller' = [caller EXCEPT !.pc = "returned"]
                /\ life' = [life EXCEPT !.result = "null", !.fail = fail]
                /\ UNCHANGED pc
    /\ UNCHANGED query_mutex
    /\ StartupUnchanged

\* pthread_mutex_lock(&input->query_mutex)
CreatorLock ==
    /\ caller.pc = "lock"
    /\ query_mutex = "free"
    /\ query_mutex' = "creator"
    /\ caller' = [caller EXCEPT !.pc = "check"]
    /\ UNCHANGED <<pc, life>>
    /\ StartupUnchanged

\* a mutant of NeedsWait: the creator waits whatever the flag says
NeedsWaitAlways(l) == TRUE

\* the test of the wait loop: while (!input->ready)
NeedsWait(l) == ~l.ready

\* the test, and pthread_cond_wait, which releases the mutex
CreatorCheck ==
    /\ caller.pc = "check"
    /\ IF NeedsWait(life)
       THEN /\ caller' = [caller EXCEPT !.pc = "waiting", !.signalled = FALSE,
                                        !.waits = @ + 1]
            /\ query_mutex' = "free"
       ELSE /\ caller' = [caller EXCEPT !.pc = "unlock"]
            /\ UNCHANGED query_mutex
    /\ UNCHANGED <<pc, life>>
    /\ StartupUnchanged

\* the wait ends, after the signal or spuriously, and the mutex is taken again
CreatorWake ==
    /\ caller.pc = "waiting"
    /\ query_mutex = "free"
    /\ \E cause \in {"signal", "spurious"} :
           /\ cause = "signal" => caller.signalled
           /\ cause = "spurious" => ~caller.signalled /\ caller.spurious < MaxSpurious
           /\ caller' = [caller EXCEPT
                  !.pc = "check", !.signalled = FALSE,
                  !.spurious = IF cause = "spurious" THEN @ + 1 ELSE @]
    /\ query_mutex' = "creator"
    /\ UNCHANGED <<pc, life>>
    /\ StartupUnchanged

\* pthread_mutex_unlock; return input
CreatorReturn ==
    /\ caller.pc = "unlock"
    /\ query_mutex' = "free"
    /\ caller' = [caller EXCEPT !.pc = "returned"]
    /\ life' = [life EXCEPT !.result = "input"]
    /\ UNCHANGED pc
    /\ StartupUnchanged

\* input_thread_func: pthread_mutex_lock(&input->query_mutex)
ThreadLock ==
    /\ pc = "born"
    /\ query_mutex = "free"
    /\ query_mutex' = "input"
    /\ pc' = "locked"
    /\ UNCHANGED <<caller, life>>
    /\ StartupUnchanged

\* a mutant of set_ready: the flag stays as it is
set_ready_never(l) == l

\* input->ready = true
set_ready(l) == [l EXCEPT !.ready = TRUE]

\* the flag is set and ready_condition is signalled
ThreadReady ==
    /\ pc = "locked"
    /\ life' = set_ready(life)
    /\ caller' = IF caller.pc = "waiting" THEN [caller EXCEPT !.signalled = TRUE]
                 ELSE caller
    /\ pc' = "ready"
    /\ UNCHANGED query_mutex
    /\ StartupUnchanged

\* pthread_mutex_unlock; the thread enters its loop
ThreadUnlock ==
    /\ pc = "ready"
    /\ query_mutex' = "free"
    /\ pc' = "poll"
    /\ UNCHANGED <<caller, life>>
    /\ StartupUnchanged

GetchStartup == \E byte \in StartupBytes : Getch(byte)

NextStartup ==
    \/ CreateThread \/ CreatorLock \/ CreatorCheck \/ CreatorWake \/ CreatorReturn
    \/ ThreadLock \/ ThreadReady \/ ThreadUnlock
    \/ Poll \/ GetchTimeout \/ GetchStartup

\* both threads keep being scheduled
SpecStartup ==
    /\ InitStartup /\ [][NextStartup]_vars
    /\ WF_vars(CreatorLock) /\ WF_vars(CreatorCheck) /\ WF_vars(CreatorWake)
    /\ WF_vars(CreatorReturn)
    /\ WF_vars(ThreadLock) /\ WF_vars(ThreadReady) /\ WF_vars(ThreadUnlock)

\* input_create has returned the input
ReturnedInput == caller.pc = "returned" /\ life.result = "input"

(***************************************************************************)
(* C34: input_create returns a non-NULL input only after the input thread  *)
(* has set the ready flag, and once the thread is started input_create     *)
(* returns, under every interleaving of the two threads: the creator does  *)
(* not miss a signal sent before it starts to wait.                        *)
(***************************************************************************)
C34_Handshake ==
    /\ [](ReturnedInput => life.ready /\ pc \notin {"unborn", "born", "locked"})
    /\ (caller.pc = "lock") ~> ReturnedInput

\* C34's case: the thread has set the flag and signalled before the creator
\* locked the mutex; the creator has not waited and has returned the input
C34_Witness ==
    /\ ReturnedInput
    /\ caller.waits = 0
    /\ life.ready

(***************************************************************************)
(* C35: the palette is split into the three channel tables on the first    *)
(* call of palette_to_rgb24 only; the output of every later call is        *)
(* determined by the palette of the first call and the index buffer of     *)
(* the call, whatever palette the later call is given.                     *)
(***************************************************************************)
C35_PaletteCache ==
    [][ /\ pcall.n = 0 => palette_cache' = palette_init(Palettes[pcall'.palette])
        /\ pcall.n > 0 => palette_cache' = palette_cache
        /\ pcall'.rgb24 =
               palette_to_rgb24_scalar_ref(LastIndexed', Palettes[pcall'.first],
                                           pcall'.npixels)
      ]_vars

\* C35's case: a later call was given another palette than the first one
\* and has written the colours of the first one's
C35_Witness ==
    /\ pcall.n = 2
    /\ pcall.first = "bench" /\ pcall.palette = "inverted"
    /\ pcall.npixels = MaxPixels
    /\ palette_cache = palette_init(Palettes.bench)
    /\ pcall.rgb24 = palette_to_rgb24_scalar_ref(LastIndexed, Palettes.bench, MaxPixels)

\* the calls, made one after the other when the keys of down are down at
\* the engine, alternate for every key: no key-down of a key that is down,
\* no key-up of a key that is not
RECURSIVE Alternates(_, _)
Alternates(down, calls) ==
    IF calls = <<>> THEN TRUE
    ELSE LET call == Head(calls)
         IN  IF call[1] = "down"
             THEN call[2] \notin down /\ Alternates(down \cup {call[2]}, Tail(calls))
             ELSE IF call[1] = "up"
             THEN call[2] \in down /\ Alternates(down \ {call[2]}, Tail(calls))
             ELSE Alternates(down, Tail(calls))

(***************************************************************************)
(* C36: for every key code the calls delivered to the engine alternate     *)
(* key-down, key-up, key-down, ..., starting with a key-down: no step of   *)
(* the input thread sends a key-down for a key that is down or a key-up    *)
(* for a key that is not.                                                  *)
(***************************************************************************)
C36_Alternation == [][ ev'.op # ev.op => Alternates(doom.down, ev'.calls) ]_vars

(***************************************************************************)
(* C37: every key code passed to key-down and to sched_key_release for a   *)
(* byte 0..255 dispatched as a literal key lies in 0..255, so that the key *)
(* has a bitmap bit and is_key_held reports it as held while its pending   *)
(* release exists.                                                         *)
(***************************************************************************)
C37_KeyCodeRange ==
    /\ \A key \in doom.down : key \in 0..(MAX_KEY_CODE - 1)
    /\ \A i \in 1..Len(input.pending_releases) :
           /\ input.pending_releases[i].key \in 0..(MAX_KEY_CODE - 1)
           /\ is_key_held(Ctx, input.pending_releases[i].key)

(***************************************************************************)
(* SpecDigits: the digit bytes of CSI parameters, with parm an int of 32   *)
(* bits.  life.digits holds the digits received for the current parameter. *)
(* The signed overflow of parm * 10 + digit is undefined: the step chooses *)
(* among the wrapped value and other ints.                                 *)
(***************************************************************************)
\* digits sent for one parameter, parameter separators sent in a sequence,
\* and the digits of a parameter that a separator follows
MaxDigitRun == 10
MaxSeparators == 2
MaxStoredDigits == 1

\* the digits a run sends: '2' and '9'
DigitValues == {2, 9}

InitDigits ==
    /\ input = InputInit
    /\ doom = [down |-> {}, twice |-> {}]
    /\ now = 0
    /\ pc = "poll"
    /\ ev = EvInit
    /\ char_signed = TRUE
    /\ renderer = <<>> /\ stdout = <<>> /\ rcall = <<>>
    /\ palette_cache = <<>> /\ pcall = <<>>
    /\ caller = <<>> /\ query_mutex = "free" /\ stdin = <<>> /\ qhist = <<>>
    /\ peer = <<>>
    /\ life = [digits |-> <<>>]

\* a + b in 32 bits, wrapped around
AddWrap(a, b) ==
    IF b > 0 /\ a > INT_MAX - b THEN (a - INT_MAX - 1) + (b - INT_MAX - 1)
    ELSE IF b < 0 /\ a < INT_MIN - b THEN (a + INT_MAX + 1) + (b + INT_MAX + 1)
    ELSE a + b

\* parm * 10 + digit in 32 bits, wrapped around
AccumulateWrap(parm, digit) ==
    LET p2 == AddWrap(parm, parm)
        p4 == AddWrap(p2, p2)
        p8 == AddWrap(p4, p4)
    IN  AddWrap(AddWrap(p8, p2), digit)

\* parm * 10 + digit is an int
FitsInt(parm, digit) ==
    /\ parm <= (INT_MAX - digit) \div 10
    /\ parm >= (INT_MIN + 9) \div 10

\* what parm may hold after parm = parm * 10 + digit
Accumulated(parm, digit) ==
    IF FitsInt(parm, digit) THEN {parm * 10 + digit}
    ELSE {AccumulateWrap(parm, digit), INT_MIN, -1, 0, INT_MAX}

\* the thread reads byte and ends in the context c; digits are the digits
\* of the current parameter afterwards
DigitsStep(byte, c, digits) ==
    /\ pc = "read"
    /\ Step(c, "getch", byte, "poll")
    /\ life' = [digits |-> digits]
    /\ UNCHANGED <<render_vars, palette_vars, query_vars>>

\* ESC, in GROUND or in the middle of a sequence
GetchEscape ==
    /\ input.state \in {STATE_GROUND, STATE_CSI}
    /\ DigitsStep(27, getch_byte(Ctx, 27), <<>>)

\* '[' after ESC: parm = 0
GetchBracket ==
    /\ input.state = STATE_ESC
    /\ DigitsStep(91, getch_byte(Ctx, 91), <<>>)

\* ';': the parameter is stored, parm = 0
GetchSeparator ==
    /\ input.state = STATE_CSI
    /\ input.parm_count < MaxSeparators
    /\ Len(life.digits) <= MaxStoredDigits
    /\ DigitsStep(59, getch_byte(Ctx, 59), <<>>)

\* a digit: input->parm = input->parm * 10 + (ch - '0')
GetchWideDigit ==
    /\ input.state = STATE_CSI
    /\ Len(life.digits) < MaxDigitRun
    /\ \E digit \in DigitValues :
           \E parm \in Accumulated(input.parm, digit) :
               DigitsStep(48 + digit,
                          [getch_byte([Ctx EXCEPT !.input.parm = 0], 48 + digit)
                               EXCEPT !.input.parm = parm],
                          Append(life.digits, digit))

NextDigits ==
    \/ Poll \/ GetchTimeout
    \/ GetchEscape \/ GetchBracket \/ GetchSeparator \/ GetchWideDigit

SpecDigits == InitDigits /\ [][NextDigits]_vars

\* the decimal value of the digits
RECURSIVE DecimalValue(_)
DecimalValue(digits) ==
    IF digits = <<>> THEN 0
    ELSE DecimalValue(SubSeq(digits, 1, Len(digits) - 1)) * 10 + digits[Len(digits)]

(***************************************************************************)
(* C38: whatever the number of digit bytes the terminal sends for one      *)
(* parameter of a CSI sequence, parm * 10 + digit stays within the range   *)
(* of a 32-bit signed int, and parm equals the decimal value of the digits *)
(* received.                                                               *)
(***************************************************************************)
C38_NoOverflow ==
    [][ (pc = "read" /\ pc' = "poll" /\ ev'.op = "getch" /\ input.state = STATE_CSI
            /\ ev'.ch \in 48..57)
            => /\ FitsInt(input.parm, ev'.ch - 48)
               /\ input'.parm = DecimalValue(life'.digits)
      ]_vars

\* The block input->device_attributes points to is the one allocated for the
\* device-attributes reply parsed last (0: NULL); the block of an earlier
\* reply was freed when the next one was stored (input.c:595-598)
DaBlock == qhist.src.da
Freed(block) == block # 0 /\ block # DaBlock

(***************************************************************************)
(* C39: the array and count returned by input_get_device_attributes are    *)
(* the parameter list of one device-attributes reply, and the array is     *)
(* neither freed nor modified by the input thread afterwards, whatever     *)
(* the terminal sends after the call has returned.                         *)
(***************************************************************************)
C39_ListStaysValid ==
    Returned("da") =>
        /\ caller.last.src # 0
        /\ ~Freed(caller.last.src)
        /\ caller.last.result = <<input.da_count, input.device_attributes>>

(***************************************************************************)
(* SpecLocks: the mutexes.  The input thread's loop is taken one mutex     *)
(* operation at a time while a caller runs the query functions.  The       *)
(* terminal's bytes are the sequences of stdin: replies to the queries and *)
(* keys.  life.ops holds the mutex operations the current step of the      *)
(* thread has still to make, in the order of the code; life.kind and       *)
(* life.byte say what the step is (the top of the loop, a read that timed  *)
(* out, a byte); life.held is the set of mutexes the thread holds;         *)
(* life.relock says that the thread has locked a mutex it holds.  The      *)
(* step's effect on the parser and the engine is made with its last        *)
(* operation.                                                              *)
(***************************************************************************)
Lock(mutex) == <<"lock", mutex>>
Unlock(mutex) == <<"unlock", mutex>>

\* sched_key_release (input.c:130-159): both ways out unlock
sched_key_release_locks == <<Lock("release"), Unlock("release")>>

\* process_pending_releases (input.c:181-205); doom_key_up takes no mutex
process_pending_releases_locks == <<Lock("release"), Unlock("release")>>

\* device_attributes_report, cell_size_report, position_report
report_locks == <<Lock("query"), Unlock("query")>>

\* a mutant of held_section_locks: the release is rescheduled before the
\* mutex is unlocked
held_section_with_sched == <<Lock("release")>> \o sched_key_release_locks \o <<Unlock("release")>>

\* csi_key's look at the pending release of a held key (input.c:352-384)
held_section_locks == <<Lock("release"), Unlock("release")>>

\* n times the operations ops
RECURSIVE Times(_, _)
Times(ops, n) == IF n = 0 THEN <<>> ELSE ops \o Times(ops, n - 1)

csi_key_locks(c, ch, parm1, parm2) ==
    LET doom_key == CsiDoomKey(ch, parm1)
        already_held == is_key_held(c, doom_key)
        i == FindPending(c.input, doom_key)
        is_new_keypress ==
            /\ already_held
            /\ i # 0
            /\ IsDistinctKeypress(TimeToReleaseMs(c.input.pending_releases[i].release_time,
                                                  clock_gettime(c.now)))
    IN  IF doom_key = 0 THEN <<>>
        ELSE (IF already_held THEN held_section_locks ELSE <<>>)
             \o sched_key_release_locks
             \o (IF ~already_held \/ is_new_keypress
                 THEN Times(sched_key_release_locks, Len(ModifierKeys(parm2)))
                 ELSE <<>>)

parse_mouse_sgr_locks(c, final_char) ==
    LET cb == c.input.parms[0]
        button == cb % 4
    IN  IF /\ c.input.parm_count >= 3
           /\ ~BitSet(cb, 64)
           /\ c.input.mouse.tracking
           /\ ~BitSet(cb, 32) /\ button < 3
           /\ final_char = 77 /\ ~c.input.mouse.buttons[button]
           /\ MouseDoomKey(button) # 0
        THEN sched_key_release_locks ELSE <<>>

\* the dispatch on the final byte, the last parameter stored
CsiDispatchLocks(c, ch) ==
    LET inp == c.input
    IN  IF ch = 99 /\ inp.parm_prefix = 63 THEN report_locks
        ELSE IF ch = 116
        THEN IF inp.parm_count >= 3 /\ inp.parms[0] = 4 THEN report_locks ELSE <<>>
        ELSE IF ch = 82
        THEN IF inp.parm_count >= 2 THEN report_locks ELSE <<>>
        ELSE IF ch = 77 \/ ch = 109
        THEN IF inp.parm_prefix = 60 THEN parse_mouse_sgr_locks(c, ch) ELSE <<>>
        ELSE csi_key_locks(c, ch,
                           IF inp.parm_count > 0 THEN inp.parms[0] ELSE 0,
                           IF inp.parm_count > 1 THEN inp.parms[1] ELSE 0)

\* ascii_key always ends in sched_key_release
ascii_key_locks == sched_key_release_locks

parse_char_locks(c, ch) ==
    LET st == c.input.state
    IN  IF ch = 3 THEN <<>>
        ELSE IF ch = 27 THEN (IF st = STATE_ESC THEN ascii_key_locks ELSE <<>>)
        ELSE IF st = STATE_GROUND THEN ascii_key_locks
        ELSE IF st = STATE_ESC
        THEN IF ch = 79 \/ ch = 91 THEN <<>>
             ELSE ascii_key_locks \o (IF IsPrintable(ch) THEN ascii_key_locks ELSE <<>>)
        ELSE IF st = STATE_SS3
        THEN IF ch \in 80..83 THEN sched_key_release_locks ELSE <<>>
        ELSE IF st = STATE_CSI
        THEN IF ch = 63 \/ ch = 62 \/ ch = 60 \/ (ch >= 48 /\ ch <= 57) \/ ch = 59
             THEN <<>>
             ELSE CsiDispatchLocks(StoreParm(c), ch)
        ELSE <<>>

getch_timeout_locks(c) ==
    IF /\ c.input.state = STATE_ESC
       /\ c.input.esc_waiting
       /\ EscTimedOut(ElapsedMs(clock_gettime(c.now), c.input.esc_time))
    THEN ascii_key_locks ELSE <<>>

\* the reply signals query_condition: a device-attributes reply and a
\* position reply do, a cell-size reply does not
Signals(c, ch) ==
    /\ c.input.state = STATE_CSI
    /\ \/ ch = 99 /\ c.input.parm_prefix = 63
       \/ ch = 82 /\ StoreParm(c).input.parm_count >= 2

\* what the keyboard has sent when the thread starts: nothing, Up twice,
\* Shift+Up twice; the clock stands still
LockKeys == {<<>>, <<<<27, 91, 65>>, <<27, 91, 65>>>>,
             <<<<27, 91, 49, 59, 50, 65>>, <<27, 91, 49, 59, 50, 65>>>>}

NoStep == [ops |-> <<>>, kind |-> "none", byte |-> -1, held |-> {}, relock |-> FALSE,
           spurious |-> 0]

InitLocks ==
    /\ input = InputInit
    /\ doom = [down |-> {}, twice |-> {}]
    /\ now = 0
    /\ pc = "poll"
    /\ ev = EvInit
    /\ char_signed = TRUE
    /\ renderer = <<>> /\ stdout = <<>> /\ rcall = <<>>
    /\ palette_cache = <<>> /\ pcall = <<>>
    /\ caller = CallerInit
    /\ peer = Absent
    /\ query_mutex = "free"
    /\ stdin \in LockKeys
    /\ qhist = [parsed |-> <<>>, src |-> [da |-> 0, cell |-> 0, pos |-> 0],
                sent |-> 0, unsolicited |-> 0, acc |-> NoAccess]
    /\ life = NoStep

\* the context the step ends in
StepEnd(kind, byte) ==
    IF kind = "poll" THEN process_pending_releases(Ctx)
    ELSE IF kind = "timeout" THEN getch_timeout(Ctx)
    ELSE getch_byte(Ctx, byte)

\* the step of the thread is complete: its effect, and the signal of a reply
Complete(kind, byte) ==
    /\ Step(StepEnd(kind, byte), kind, byte, IF kind = "poll" THEN "read" ELSE "poll")
    /\ \E woken \in (IF kind = "getch" /\ Signals(Ctx, ToChar(byte))
                     THEN Wakeable ELSE {"none"}) : Signal(woken)

\* The thread goes through the operations on release_mutex, which no other
\* thread uses, up to the next operation it does on or under query_mutex;
\* pthread_mutex_lock of a mutex the thread holds never returns.
RECURSIVE RunRelease(_, _)
RunRelease(ops, held) ==
    IF ops = <<>> \/ Head(ops)[2] = "query" \/ "query" \in held
    THEN [ops |-> ops, held |-> held, relock |-> FALSE]
    ELSE IF Head(ops)[1] = "lock" /\ "release" \in held
    THEN [ops |-> ops, held |-> held, relock |-> TRUE]
    ELSE RunRelease(Tail(ops), IF Head(ops)[1] = "lock" THEN held \cup {"release"}
                               ELSE held \ {"release"})

\* the thread has come to run in the step kind: it is stuck, or the step is
\* complete, or it stands before its next mutex operation
Proceed(kind, byte, run) ==
    IF run.relock
    THEN /\ life' = [life EXCEPT !.ops = run.ops, !.held = run.held, !.kind = kind,
                                 !.byte = byte, !.relock = TRUE]
         /\ pc' = "stuck"
         /\ UNCHANGED <<input, doom, now, ev, char_signed, caller, peer>>
    ELSE IF run.ops = <<>>
    THEN /\ life' = [life EXCEPT !.ops = <<>>, !.held = run.held]
         /\ Complete(kind, byte)
    ELSE /\ life' = [life EXCEPT !.ops = run.ops, !.held = run.held, !.kind = kind,
                                 !.byte = byte]
         /\ pc' = "locks"
         /\ UNCHANGED <<input, doom, now, ev, char_signed, caller, peer>>

\* the thread starts a step whose mutex operations are ops
Begin(kind, byte, ops) ==
    /\ Proceed(kind, byte, RunRelease(ops, life.held))
    /\ UNCHANGED query_mutex

\* the top of the loop: process_pending_releases
LocksPoll ==
    /\ pc = "poll"
    /\ Begin("poll", -1, process_pending_releases_locks)
    /\ UNCHANGED <<stdin, qhist, render_vars, palette_vars>>

\* no byte has come: the read times out
LocksTimeout ==
    /\ pc = "read"
    /\ stdin = <<>>
    /\ Begin("timeout", -1, getch_timeout_locks(Ctx))
    /\ UNCHANGED <<stdin, qhist, render_vars, palette_vars>>

\* the next byte of the terminal is read
LocksGetch ==
    /\ pc = "read"
    /\ stdin # <<>>
    /\ LET byte == Head(Head(stdin))
           rest == Tail(Head(stdin))
       IN  /\ Begin("getch", byte, parse_char_locks(Ctx, ToChar(byte)))
           /\ stdin' = IF rest = <<>> THEN Tail(stdin) ELSE <<rest>> \o Tail(stdin)
    /\ UNCHANGED <<qhist, render_vars, palette_vars>>

\* the next mutex operation of the step: pthread_mutex_lock blocks while
\* another thread holds the mutex, and for ever when the thread itself does
LockStep ==
    /\ pc = "locks"
    /\ LET op == Head(life.ops)
           mutex == op[2]
           held == IF op[1] = "lock" THEN life.held \cup {mutex} ELSE life.held \ {mutex}
       IN  IF op[1] = "lock" /\ mutex \in life.held
           THEN /\ Proceed(life.kind, life.byte,
                           [ops |-> life.ops, held |-> life.held, relock |-> TRUE])
                /\ UNCHANGED query_mutex
           ELSE /\ (op[1] = "lock" /\ mutex = "query") => query_mutex = "free"
                /\ query_mutex' = IF mutex # "query" THEN query_mutex
                                  ELSE IF op[1] = "lock" THEN "input" ELSE "free"
                /\ Proceed(life.kind, life.byte, RunRelease(Tail(life.ops), held))
    /\ UNCHANGED <<stdin, qhist, render_vars, palette_vars>>

\* the caller makes one query in a run
LocksCallerLock ==
    /\ caller.n = 0
    /\ QueryLock("caller", QueryFns)

\* pthread_cond_wait of the caller returns with the mutex taken again, after
\* a signal or spuriously; a run has at most MaxSpurious spurious returns
LocksCallerWake ==
    /\ caller.pc = "waiting"
    /\ query_mutex = "free"
    /\ \E cause \in {"signal", "timeout", "spurious"} :
           /\ cause = "signal" => caller.signalled
           /\ cause = "timeout" => caller.fn = "cells" /\ ~caller.signalled /\ TimedOut(caller)
           /\ cause = "spurious" => ~caller.signalled /\ life.spurious < MaxSpurious
           /\ caller' = [caller EXCEPT
                  !.pc = IF caller.fn = "cells" THEN "have" ELSE "check",
                  !.signalled = FALSE,
                  !.wait_result = IF cause = "timeout" THEN 1 ELSE 0]
           /\ life' = [life EXCEPT !.spurious = IF cause = "spurious" THEN @ + 1 ELSE @]
    /\ query_mutex' = "caller"
    /\ qhist' = [qhist EXCEPT !.acc = NoAccess]
    /\ UNCHANGED <<thread_vars, peer, stdin, render_vars, palette_vars>>

NextLocks ==
    \/ LocksPoll \/ LocksTimeout \/ LocksGetch \/ LockStep
    \/ LocksCallerLock \/ CallerIssue \/ CallerCheck \/ LocksCallerWake \/ CallerReturn

\* both threads keep being scheduled: the input thread takes a mutex that
\* stays free, the caller goes on while it holds query_mutex
SpecLocks ==
    /\ InitLocks /\ [][NextLocks]_vars
    /\ WF_vars(LockStep)
    /\ WF_vars(CallerIssue) /\ WF_vars(CallerCheck) /\ WF_vars(CallerReturn)

\* the input thread waits for query_mutex
WaitsForQuery == pc = "locks" /\ Head(life.ops) = Lock("query") /\ "query" \notin life.held

(***************************************************************************)
(* C40: in every interleaving of the input thread and a query caller no    *)
(* thread locks release_mutex while it holds it (sched_key_release is      *)
(* called with release_mutex released), no thread holds release_mutex and  *)
(* query_mutex at once, and the input thread's wait for query_mutex ends,  *)
(* the caller releasing the mutex when it waits on the condition variable. *)
(***************************************************************************)
C40_NoLockDeadlock ==
    /\ [](~life.relock /\ pc # "stuck")
    /\ [](life.held # {"release", "query"})
    /\ []((query_mutex = "input") <=> ("query" \in life.held))
    /\ WaitsForQuery ~> ("query" \in life.held)

\* C40's case: the thread is about to lock query_mutex for a report while
\* the caller of input_get_screen_size waits on the condition variable,
\* after the thread has sent a key to the engine
C40_Witness ==
    /\ WaitsForQuery
    /\ caller.pc = "waiting" /\ caller.fn = "size"
    /\ query_mutex = "free"
    /\ doom.down # {}

=============================================================================
